---- MODULE Spec2Model ----
(***************************************************************************)
(* The event manager of Orca (src/orca/event_manager.py): the filter       *)
(* (_ignore), the duplicate and overload handling (_isDuplicateEvent,      *)
(* _inFlood, _inDeluge, _pruneEventsDuringFlood), the pending queue with   *)
(* its scheduling token (_addToQueue, _dequeue) and the delivery of a      *)
(* dequeued event to a script (_processObjectEvent).                       *)
(*                                                                         *)
(* An event type is the sequence of its colon-separated parts, so that     *)
(* "object:state-changed:focused" is <<"object","state-changed","focused">>*)
(* and str.startswith / str.endswith become prefix and last-part tests.    *)
(***************************************************************************)
EXTENDS Integers, Sequences, FiniteSets, TLC

(***************************************************************************)
(* Bounds of the exploration.                                              *)
(***************************************************************************)
\* notifications the bus delivers to _enqueue during one run
MaxArrivals == 2
\* runs of the idle callback during one run
MaxIdleRuns == 1
MaxListeners == 2

(***************************************************************************)
(* Thresholds of the overload regimes.                                     *)
(***************************************************************************)
FloodSize == 50
DelugeSize == 100

(***************************************************************************)
(* The accessible objects of the desktop, as the object query facade       *)
(* (AXObject, AXUtilities) answers for them.  "none" is Python's None.     *)
(***************************************************************************)
None == "none"

Objects == {"entry", "other", "frame", "dialog", "cell", "table"}

\* the objects the owning application may destroy while events are pending
Mortal == {"entry"}

VARIABLES
    active,                       \* self._active
    queue,                        \* self._eventQueue, oldest first
    gidleId,                      \* self._gidleId, 0 when no token is held
    idleSources,                  \* _dequeue callbacks installed in the GLib main loop
    noFocusTimeouts,              \* _onNoFocus timeouts installed in the GLib main loop
    locusOfFocus,                 \* orca_state.locusOfFocus
    activeWindow,                 \* orca_state.activeWindow
    activeScript,                 \* orca_state.activeScript
    parentsOfDefunctDescendants,  \* self._parentsOfDefunctDescendants
    eventsSuspended,              \* self._eventsSuspended
    eventsTriggeringSuspension,   \* self._eventsTriggeringSuspension
    scriptListenerCounts,         \* self._scriptListenerCounts
    registered,                   \* the event types registered at self._listener
    listeners,                    \* per event type, the listeners the scripts
                                  \* registered in the current table of counts
                                  \* and did not deregister since
    dead,                         \* the objects that no longer exist
    arrivals,                     \* number of events handed to _enqueue so far
    idleRuns,                     \* number of idle callbacks run so far
    dequeued,                     \* ids of the events taken by _dequeue, in order
    delivered,                    \* ids of the events passed to a script, in order
    ignored,                      \* the events _ignore rejected: <<id, rule>>
    last,                         \* what the latest operation did
    gidleLock,                    \* self._gidleLock: the thread that holds it
    pc,                           \* the line each thread has reached
    local                         \* the local variables of each thread

(***************************************************************************)
(* Events and event types.                                                 *)
(***************************************************************************)
Event(id, kind, type, source, detail1, detail2, any_data) ==
    [ id |-> id, kind |-> kind, type |-> type, source |-> source,
      detail1 |-> detail1, detail2 |-> detail2, any_data |-> any_data ]

NoEvent == Event(0, "none", <<>>, None, 0, 0, None)

StartsWith(t, p) == Len(p) <= Len(t) /\ SubSeq(t, 1, Len(p)) = p

EndsWith(t, part) == Len(t) > 0 /\ t[Len(t)] = part

TextInsert == <<"object", "text-changed", "insert">>
TextDelete == <<"object", "text-changed", "delete">>
ChildrenAdd == <<"object", "children-changed", "add">>
ChildrenRemove == <<"object", "children-changed", "remove">>
Focused == <<"object", "state-changed", "focused">>
Selected == <<"object", "state-changed", "selected">>
SelectionChanged == <<"object", "selection-changed">>
Checked == <<"object", "state-changed", "checked">>
Showing == <<"object", "state-changed", "showing">>
Sensitive == <<"object", "state-changed", "sensitive">>
WindowActivate == <<"window", "activate">>
WindowDeactivate == <<"window", "deactivate">>
MouseButton == <<"mouse", "button", "1p">>
BrailleType == <<"braille">>

\* the character EventManager.EMBEDDED_OBJECT_CHARACTER, as a whole text
EMBEDDED_OBJECT_CHARACTER == "\\ufffc"

\* the texts an event may carry in any_data
Texts == {"a", EMBEDDED_OBJECT_CHARACTER}

(***************************************************************************)
(* AXObject: the queries answer a neutral default for a dead object.       *)
(***************************************************************************)
is_valid(obj) == obj # None /\ obj \notin dead

is_dead(obj) == obj # None /\ ~is_valid(obj)

get_application(obj) ==
    IF ~is_valid(obj) THEN None
    ELSE IF obj = "cell" THEN "soffice" ELSE "gedit"

get_name(obj) == IF obj \in {"soffice", "gedit"} THEN obj ELSE ""

get_application_toolkit_name(obj) ==
    IF ~is_valid(obj) THEN ""
    ELSE IF get_application(obj) = "soffice" THEN "VCL" ELSE "gtk"

get_role(obj) ==
    IF ~is_valid(obj) THEN "invalid"
    ELSE CASE obj \in {"frame", "dialog"} -> "frame"
           [] obj = "cell" -> "paragraph"
           [] obj = "table" -> "table"
           [] OTHER -> "text"

\* AXObject.get_state_set(obj).is_empty(): empty for an object that is gone
has_no_state(obj) == ~is_valid(obj)

has_state(obj, state) ==
    /\ is_valid(obj)
    /\ CASE state = "focused" -> obj = "entry"
         [] state = "focusable" -> obj \in {"entry", "other", "cell"}
         [] state = "manages-descendants" -> obj = "table"
         [] OTHER -> FALSE

(***************************************************************************)
(* AXUtilities: predicates over role and state.                            *)
(***************************************************************************)
is_defunct(obj) == has_state(obj, "defunct")
is_focused(obj) == has_state(obj, "focused")
is_focusable(obj) == has_state(obj, "focusable")
is_iconified(obj) == has_state(obj, "iconified")
is_modal(obj) == has_state(obj, "modal")
manages_descendants(obj) == has_state(obj, "manages-descendants")
is_frame(obj) == get_role(obj) = "frame"
is_window(obj) == get_role(obj) = "window"
is_document(obj) == get_role(obj) \in {"document frame", "document text", "document web"}
is_table(obj) == get_role(obj) \in {"table", "tree table"}
is_table_related(obj) == get_role(obj) \in {"table", "tree table", "table cell", "table row"}
is_tree_related(obj) == get_role(obj) \in {"tree", "tree item", "tree table"}
is_section(obj) == get_role(obj) = "section"
is_notification(obj) == get_role(obj) = "notification"
is_image(obj) == get_role(obj) = "image"
is_menu(obj) == get_role(obj) = "menu"
is_menu_item(obj) == get_role(obj) = "menu item"
is_panel(obj) == get_role(obj) = "panel"

(***************************************************************************)
(* Overload: _inFlood, _inDeluge and the three predicates over an event.   *)
(* q is the pending queue and locus the locus of focus they are read from. *)
(***************************************************************************)
InFlood(q) == Len(q) > FloodSize

\* a deluge that begins one event later
InDeluge_OneLater(q) == Len(q) > DelugeSize + 1

InDeluge(q) == Len(q) > DelugeSize

\* the list "ignore" of _ignoreDuringDeluge and of _processDuringFlood
HighVolume ==
    { <<"object", "text-changed", "delete">>,
      <<"object", "text-changed", "insert">>,
      <<"object", "text-changed", "delete", "system">>,
      <<"object", "text-changed", "insert", "system">>,
      <<"object", "text-attributes-changed">>,
      <<"object", "text-caret-moved">>,
      <<"object", "children-changed", "add">>,
      <<"object", "children-changed", "add", "system">>,
      <<"object", "children-changed", "remove">>,
      <<"object", "children-changed", "remove", "system">>,
      <<"object", "property-change", "accessible-name">>,
      <<"object", "property-change", "accessible-description">>,
      <<"object", "selection-changed">>,
      <<"object", "state-changed", "showing">>,
      <<"object", "state-changed", "sensitive">> }

EventSourceIsDead(e) == is_dead(e.source)

\* the comparison with the locus of focus the wrong way round
IgnoreDuringDeluge_Inverted(e, locus) ==
    IF EventSourceIsDead(e) THEN TRUE
    ELSE IF e.type \notin HighVolume THEN FALSE
    ELSE e.source = locus

IgnoreDuringDeluge(e, locus) ==
    IF EventSourceIsDead(e) THEN TRUE
    ELSE IF e.type \notin HighVolume THEN FALSE
    ELSE e.source # locus

\* without the exception for the locus of focus
ProcessDuringFlood_NoFocus(e, locus) ==
    IF EventSourceIsDead(e) THEN FALSE
    ELSE e.type \notin HighVolume

\* every event of a live source is processed during a flood
ProcessDuringFlood_AnyLive(e, locus) == ~EventSourceIsDead(e)

ProcessDuringFlood(e, locus) ==
    IF EventSourceIsDead(e) THEN FALSE
    ELSE IF e.type \notin HighVolume THEN TRUE
    ELSE e.source = locus

PrioritizeDuringFlood(e) ==
    IF StartsWith(e.type, <<"object", "state-changed", "focused">>) THEN e.detail1 # 0
    ELSE IF StartsWith(e.type, <<"object", "state-changed", "selected">>) THEN e.detail1 # 0
    ELSE IF StartsWith(e.type, <<"object", "text-selection-changed">>) THEN TRUE
    ELSE IF StartsWith(e.type, <<"window", "activate">>) THEN TRUE
    ELSE IF StartsWith(e.type, <<"window", "deactivate">>) THEN TRUE
    ELSE IF StartsWith(e.type, <<"object", "state-changed", "active">>)
        THEN is_frame(e.source) \/ is_window(e.source)
    ELSE IF StartsWith(e.type, <<"document", "load-complete">>) THEN TRUE
    ELSE IF StartsWith(e.type, <<"object", "state-changed", "busy">>) THEN TRUE
    ELSE FALSE

\* the queue _pruneEventsDuringFlood leaves when nothing else touches the
\* queue while it runs: the events to process during a flood, in order
PruneEventsDuringFlood(q, locus) ==
    SelectSeq(q, LAMBDA x : ProcessDuringFlood(x, locus))

\* the events _pruneEventsDuringFlood takes out of q
PrunedEvents(q, locus) ==
    SelectSeq(q, LAMBDA x : ~ProcessDuringFlood(x, locus))

(***************************************************************************)
(* _isDuplicateEvent: isSame compares type, source, details and any_data.  *)
(***************************************************************************)
\* comparing the event objects instead of their fields
isSame_Identity(x, e) == x.id = e.id

isSame(x, e) ==
    /\ x.type = e.type
    /\ x.source = e.source
    /\ x.detail1 = e.detail1
    /\ x.detail2 = e.detail2
    /\ x.any_data = e.any_data

\* without the exception for prioritized events during a flood
IsDuplicateEvent_Always(e, q) == \E i \in 1..Len(q) : isSame(q[i], e)

IsDuplicateEvent(e, q) ==
    IF InFlood(q) /\ PrioritizeDuringFlood(e) THEN FALSE
    ELSE \E i \in 1..Len(q) : isSame(q[i], e)

(***************************************************************************)
(* _ignore, as the name of the rule that decides: "deliver" is the return  *)
(* of False, "exception" an exception raised while evaluating, any other   *)
(* name a return of True.                                                  *)
(***************************************************************************)
ignoredEvents ==
    { <<"object", "bounds-changed">>,
      <<"object", "state-changed", "defunct">>,
      <<"object", "property-change", "accessible-parent">> }

\* the if / elif chain over the role of the source (lines 231-310)
IgnoreForRole(e) ==
    LET role == get_role(e.source) IN
    IF StartsWith(e.type, <<"object", "property-change", "accessible-name">>)
      THEN \/ role \in {"canvas", "icon", "list item", "list", "panel", "section",
                        "table row", "table cell", "tree item", "image", "menu",
                        "menu item"}
           \/ ~is_focused(e.source) /\ role \in {"push button", "check box", "radio button"}
    ELSE IF StartsWith(e.type, <<"object", "property-change", "accessible-value">>)
      THEN role = "split pane" /\ ~is_focused(e.source)
    ELSE IF /\ StartsWith(e.type, <<"object", "text-changed", "insert">>)
            /\ e.detail2 > 1000
            /\ role \in {"text", "static"}
      THEN TRUE
    ELSE IF StartsWith(e.type, <<"object", "state-changed", "sensitive">>)
      THEN role \in {"menu item", "menu", "filler", "panel", "check menu item",
                     "radio menu item"}
    ELSE IF StartsWith(e.type, <<"object", "state-changed", "selected">>)
      THEN e.detail1 = 0 /\ role = "push button"
    ELSE IF StartsWith(e.type, <<"object", "state-changed", "showing">>)
      THEN role \notin {"alert", "animation", "info bar", "menu", "notification",
                        "dialog", "status bar", "tool tip"}
    ELSE IF StartsWith(e.type, <<"object", "text-caret-moved">>)
      THEN role = "label" /\ ~is_focused(e.source)
    ELSE IF StartsWith(e.type, <<"object", "selection-changed">>)
      THEN e.source \in parentsOfDefunctDescendants \/ is_dead(e.source)
    ELSE FALSE

IsStructural(e) ==
    \/ StartsWith(e.type, <<"object", "children-changed">>)
    \/ StartsWith(e.type, <<"object", "active-descendant-changed">>)

\* the rules for children-changed and active-descendant-changed (lines 312-366)
IgnoreStructural(e) ==
    IF get_role(e.source) \in {"menu", "layered pane", "menu item"} THEN "parent-role"
    ELSE IF e.any_data = None THEN "no-any-data"
    ELSE IF EndsWith(e.type, "remove") /\ e.any_data = locusOfFocus THEN "deliver"
    ELSE IF EndsWith(e.type, "remove") /\ is_dead(locusOfFocus) THEN "deliver"
    ELSE IF is_dead(e.any_data) \/ is_defunct(e.any_data) THEN "defunct-child"
    ELSE IF is_image(e.any_data) THEN "child-role"
    ELSE IF StartsWith(e.type, <<"object", "children-changed">>) /\ is_menu_item(e.any_data)
      THEN "child-role"
    ELSE "deliver"

\* an _ignore without the two returns for the types never ignored
NeverIgnored_NoType(e) == FALSE

\* the types _ignore never ignores (lines 163-171)
NeverIgnored(e) ==
    StartsWith(e.type, <<"window">>) \/ StartsWith(e.type, <<"mouse", "button">>)

IgnoreReason(e) ==
    LET app == get_application(e.source) IN
    IF ~active THEN "inactive"
    ELSE IF \E p \in ignoredEvents : StartsWith(e.type, p) THEN "ignored-type"
    ELSE IF /\ get_name(app) = "gnome-shell"
            /\ StartsWith(e.type, <<"object", "children-changed", "remove">>)
      THEN "type-and-app"
    ELSE IF NeverIgnored(e) THEN "deliver"
    ELSE IF IsDuplicateEvent(e, queue) THEN "duplicate"
    ELSE IF /\ EndsWith(e.type, "system")
            /\ get_name(app) = "thunderbird"
            /\ (is_table_related(e.source) \/ is_tree_related(e.source)
                  \/ is_section(e.source))
      THEN "system-role"
    ELSE IF InDeluge(queue) /\ IgnoreDuringDeluge(e, locusOfFocus) THEN "deluge"
    ELSE IF /\ \/ StartsWith(e.type, <<"object", "children-changed">>)
               \/ StartsWith(e.type, <<"object", "state-changed", "sensitive">>)
            /\ activeScript = None
      THEN "no-active-script"
    ELSE IF /\ \/ StartsWith(e.type, <<"object", "children-changed">>)
               \/ StartsWith(e.type, <<"object", "state-changed", "sensitive">>)
            /\ activeScript # app
      THEN "not-active-app"
    ELSE IF StartsWith(e.type, <<"object", "text-changed">>) /\ e.any_data \notin Texts
      THEN "exception"
    ELSE IF /\ StartsWith(e.type, <<"object", "text-changed">>)
            /\ e.any_data = EMBEDDED_OBJECT_CHARACTER
      THEN "embedded-objects"
    ELSE IF has_no_state(e.source) THEN "no-state"
    ELSE IF is_defunct(e.source) THEN "defunct"
    ELSE IF IgnoreForRole(e) THEN "role"
    ELSE IF IsStructural(e) THEN IgnoreStructural(e)
    ELSE "deliver"

Ignore(e) == IgnoreReason(e) # "deliver"

\* an _ignore that remembers every source of a defunct child
ParentsAfterIgnore_AnySource(e) ==
    IF IgnoreReason(e) = "defunct-child"
      THEN parentsOfDefunctDescendants \cup {e.source}
      ELSE parentsOfDefunctDescendants

\* self._parentsOfDefunctDescendants after _ignore(e) (lines 338-348)
ParentsAfterIgnore(e) ==
    LET reason == IgnoreReason(e) IN
    IF reason = "defunct-child"
      THEN IF manages_descendants(e.source)
             THEN parentsOfDefunctDescendants \cup {e.source}
             ELSE parentsOfDefunctDescendants
    ELSE IF /\ IsStructural(e)
            /\ reason \in {"child-role", "deliver"}
            /\ ~(EndsWith(e.type, "remove")
                   /\ (e.any_data = locusOfFocus \/ is_dead(locusOfFocus)))
      THEN parentsOfDefunctDescendants \ {e.source}
    ELSE parentsOfDefunctDescendants

(***************************************************************************)
(* The state the operations of the manager read and write, as one record,  *)
(* so that an operation is a function from the state before to the state   *)
(* after and a caller composes the operations it calls.                    *)
(***************************************************************************)
State ==
    [ queue |-> queue,
      gidleId |-> gidleId,
      idleSources |-> idleSources,
      noFocusTimeouts |-> noFocusTimeouts,
      locusOfFocus |-> locusOfFocus,
      activeWindow |-> activeWindow,
      activeScript |-> activeScript,
      eventsSuspended |-> eventsSuspended,
      eventsTriggeringSuspension |-> eventsTriggeringSuspension,
      scriptListenerCounts |-> scriptListenerCounts,
      registered |-> registered,
      listeners |-> listeners,
      dequeued |-> dequeued,
      delivered |-> delivered,
      \* what the operation in progress did so far: the events its prunes
      \* removed, the event its _dequeue took, the queue length that left,
      \* and what became of the event
      removed |-> <<>>,
      drained |-> NoEvent,
      drainLen |-> 0,
      outcome |-> "",
      \* whether the script raises an exception when the operation calls it
      raises |-> FALSE ]

(***************************************************************************)
(* Listener counts and the suspension of the noisy event types.            *)
(* A count of 0 is a type without an entry in the dictionary.              *)
(***************************************************************************)
suspendableEvents ==
    { <<"object", "children-changed", "add">>,
      <<"object", "children-changed", "remove">>,
      <<"object", "state-changed", "sensitive">>,
      <<"object", "state-changed", "showing">>,
      <<"object", "text-changed", "delete">> }

registerListener(counts, eventType) ==
    [counts EXCEPT ![eventType] = @ + 1]

deregisterListener(counts, eventType) ==
    IF counts[eventType] = 0 THEN counts
    ELSE [counts EXCEPT ![eventType] = @ - 1]

\* the types registered at self._listener after registerListener, which
\* registers a type that has no entry (line 656)
ListenerAfterRegister(listening, counts, eventType) ==
    IF counts[eventType] = 0 THEN listening \cup {eventType} ELSE listening

\* and after deregisterListener, which deregisters a type whose count
\* becomes zero (line 674)
ListenerAfterDeregister(listening, counts, eventType) ==
    IF counts[eventType] = 1 THEN listening \ {eventType} ELSE listening

SuspendEvents(s, e) ==
    LET triggers == Append(s.eventsTriggeringSuspension, e.id) IN
    IF s.eventsSuspended
      THEN [s EXCEPT !.eventsTriggeringSuspension = triggers]
      ELSE [s EXCEPT !.eventsTriggeringSuspension = triggers,
                     !.scriptListenerCounts =
                         [t \in DOMAIN @ |->
                             IF t \in suspendableEvents
                               THEN deregisterListener(@, t)[t] ELSE @[t]],
                     !.registered =
                         @ \ {t \in suspendableEvents :
                                t \notin ListenerAfterDeregister(@, s.scriptListenerCounts, t)},
                     !.eventsSuspended = TRUE]

\* an _unsuspendEvents that does not look at the triggers that remain
UnsuspendEvents_IgnoresTriggers(s, e, force) ==
    LET triggers == SelectSeq(s.eventsTriggeringSuspension, LAMBDA x : x # e.id)
        s1 == [s EXCEPT !.eventsTriggeringSuspension = triggers]
    IN  IF ~s.eventsSuspended THEN s1
        ELSE [s1 EXCEPT !.eventsSuspended = FALSE]

UnsuspendEvents(s, e, force) ==
    LET triggers == SelectSeq(s.eventsTriggeringSuspension, LAMBDA x : x # e.id)
        s1 == [s EXCEPT !.eventsTriggeringSuspension = triggers]
    IN  IF ~s.eventsSuspended THEN s1
        ELSE IF triggers # <<>> /\ ~force THEN s1
        ELSE [s1 EXCEPT !.scriptListenerCounts =
                            [t \in DOMAIN @ |->
                                IF t \in suspendableEvents
                                  THEN registerListener(@, t)[t] ELSE @[t]],
                        !.registered =
                            @ \cup {t \in suspendableEvents :
                                      t \in ListenerAfterRegister(@, s.scriptListenerCounts, t)},
                        !.eventsSuspended = FALSE]

ShouldSuspendEventsFor(e) ==
    \/ /\ \/ is_frame(e.source)
          \/ is_window(e.source) /\ get_application_toolkit_name(e.source) = "clutter"
       /\ StartsWith(e.type, <<"window">>) \/ EndsWith(e.type, "active")
    \/ /\ is_document(e.source)
       /\ EndsWith(e.type, "busy")
       /\ e.detail1 # 0

ShouldUnsuspendEventsFor(e) ==
    \/ StartsWith(e.type, <<"object", "state-changed", "focused">>) /\ e.detail1 # 0
    \/ /\ is_document(e.source)
       /\ \/ EndsWith(e.type, "busy") /\ e.detail1 = 0
          \/ StartsWith(e.type, <<"document", "load-complete">>)

DidSuspendEventsFor(s, e) ==
    \E i \in 1..Len(s.eventsTriggeringSuspension) :
        s.eventsTriggeringSuspension[i] = e.id

(***************************************************************************)
(* The scripts: one per application, named after it.                       *)
(***************************************************************************)
\* _scriptManager.getScript: the script of the application, the default
\* script when there is no application
getScript(app) == IF app = None THEN "default" ELSE app

\* _scriptManager.getScriptForMouseButtonEvent: the script of the
\* application the pointer is over
getScriptForMouseButtonEvent(e) == getScript(get_application(e.source))

GetScriptForEvent(e) ==
    LET app == get_application(e.source) IN
    IF StartsWith(e.type, <<"mouse">>) THEN getScriptForMouseButtonEvent(e)
    ELSE IF is_defunct(app) THEN None ELSE getScript(app)

\* script.isActivatableEvent and script.forceScriptActivation of the scripts
ScriptIsActivatableEvent(script, e) == TRUE

ForceScriptActivation(script, e) == FALSE

\* a decider that asks the script whether it insists before anything else
ActivatableWhen_ForceFirst(s, e, script, activatable, force) ==
    e.source # None /\ script # None /\ force

\* a decider for which every window activation is a reason to switch
ActivatableWhen_AnyWindow(s, e, script, activatable, force) ==
    /\ e.source # None /\ script # None /\ script # s.activeScript /\ activatable
    /\ \/ force
       \/ StartsWith(e.type, <<"window", "activate">>)
       \/ StartsWith(e.type, <<"object", "state-changed", "active">>)
             /\ e.detail1 # 0 /\ is_frame(e.source)
       \/ StartsWith(e.type, <<"focus">>)
       \/ StartsWith(e.type, <<"object", "state-changed", "focused">>) /\ e.detail1 # 0
       \/ /\ StartsWith(e.type, <<"object", "state-changed", "selected">>)
          /\ e.detail1 # 0 /\ is_menu(e.source) /\ is_focusable(e.source)
       \/ /\ StartsWith(e.type, <<"object", "state-changed", "showing">>)
          /\ is_panel(e.source) /\ is_modal(e.source)

\* _isActivatableEvent, for the answers of script.isActivatableEvent and
\* script.forceScriptActivation
ActivatableWhen(s, e, script, activatable, force) ==
    LET windowActivation ==
            \/ StartsWith(e.type, <<"window", "activate">>)
            \/ /\ StartsWith(e.type, <<"object", "state-changed", "active">>)
               /\ e.detail1 # 0
               /\ is_frame(e.source)
    IN
    IF e.source = None THEN FALSE
    ELSE IF script = None THEN FALSE
    ELSE IF script = s.activeScript THEN FALSE
    ELSE IF ~activatable THEN FALSE
    ELSE IF force THEN TRUE
    ELSE IF windowActivation THEN e.source # s.activeWindow
    ELSE IF \/ StartsWith(e.type, <<"focus">>)
            \/ StartsWith(e.type, <<"object", "state-changed", "focused">>) /\ e.detail1 # 0
      THEN TRUE
    ELSE IF /\ StartsWith(e.type, <<"object", "state-changed", "selected">>)
            /\ e.detail1 # 0
            /\ is_menu(e.source)
            /\ is_focusable(e.source)
      THEN TRUE
    ELSE IF /\ StartsWith(e.type, <<"object", "state-changed", "showing">>)
            /\ is_panel(e.source)
            /\ is_modal(e.source)
      THEN TRUE
    ELSE FALSE

IsActivatableEvent(s, e, script) ==
    ActivatableWhen(s, e, script, ScriptIsActivatableEvent(script, e),
                    ForceScriptActivation(script, e))

\* script.processObjectEvent: the script presents the event; a newly
\* focused object becomes the locus of focus, an activated window the
\* active window
ScriptProcessObjectEvent(s, e) ==
    LET s1 == [s EXCEPT !.delivered = Append(@, e.id)] IN
    IF StartsWith(e.type, <<"object", "state-changed", "focused">>) /\ e.detail1 # 0
      THEN [s1 EXCEPT !.locusOfFocus = e.source]
    ELSE IF StartsWith(e.type, <<"window", "activate">>)
      THEN [s1 EXCEPT !.activeWindow = e.source]
    ELSE s1

(***************************************************************************)
(* _processObjectEvent and _processInputEvent.                             *)
(***************************************************************************)
\* AXUtilities.get_desktop()
Desktop == "desktop"

\* orca_state after lines 995-997
ClearFocus(s) ==
    [s EXCEPT !.locusOfFocus = None, !.activeWindow = None, !.activeScript = None]

\* the state after a call of _pruneEventsDuringFlood
Pruned(s) ==
    [s EXCEPT !.queue = PruneEventsDuringFlood(@, s.locusOfFocus),
              !.removed = @ \o PrunedEvents(s.queue, s.locusOfFocus)]

\* a _processObjectEvent that makes the script of the event the active one
\* without asking _isActivatableEvent
Deliver_AlwaysActivates(s, e, script) ==
    [ScriptProcessObjectEvent([s EXCEPT !.activeScript = script], e)
        EXCEPT !.outcome = "delivered"]

\* script.processObjectEvent for the script that _processObjectEvent chose
\* (lines 1029-1053), after the switch of the active script if there is one
\* an exception of script.processObjectEvent that leaves _processObjectEvent
Deliver_Propagates(s, e, script) ==
    LET activated ==
            IF IsActivatableEvent(s, e, script)
              THEN [s EXCEPT !.activeScript = script]
              ELSE s
    IN  IF s.raises
          THEN [activated EXCEPT !.delivered = Append(@, e.id), !.outcome = "propagated"]
          ELSE [ScriptProcessObjectEvent(activated, e) EXCEPT !.outcome = "delivered"]

\* An exception of the script is caught (lines 1050-1053); the script that
\* raises has not changed orca_state.
Deliver(s, e, script) ==
    LET activated ==
            IF IsActivatableEvent(s, e, script)
              THEN [s EXCEPT !.activeScript = script]
              ELSE s
    IN  IF s.raises
          THEN [activated EXCEPT !.delivered = Append(@, e.id), !.outcome = "raised"]
          ELSE [ScriptProcessObjectEvent(activated, e) EXCEPT !.outcome = "delivered"]

\* the check of _processObjectEvent that returns before the flood handling
\* (lines 976-1009), or "" when none does
ReturnsEarly(s, e) ==
    IF StartsWith(e.type, <<"object", "children-changed", "remove">>) /\ e.source = Desktop
      THEN "desktop"
    ELSE IF is_dead(e.source) \/ is_defunct(e.source) THEN "defunct"
    ELSE IF is_iconified(e.source) THEN "iconified"
    ELSE IF InFlood(s.queue) /\ ~ProcessDuringFlood(e, s.locusOfFocus) THEN "flood"
    ELSE ""

\* the state _processObjectEvent returns with in that case
ReturnedEarly(s, e) ==
    LET clearing ==
            \/ StartsWith(e.type, <<"window", "deactivate">>)
            \/ StartsWith(e.type, <<"window", "destroy">>) /\ s.activeWindow = e.source
    IN  [(IF ReturnsEarly(s, e) = "defunct" /\ clearing THEN ClearFocus(s) ELSE s)
            EXCEPT !.outcome = ReturnsEarly(s, e)]

\* whether _processObjectEvent prunes the queue (lines 1005-1013)
PrunesOnDrain(s, e) == InFlood(s.queue) /\ PrioritizeDuringFlood(e)

\* _processObjectEvent from line 1015 on; parents is
\* self._parentsOfDefunctDescendants
Dispatch(s, e, parents) ==
    LET script == GetScriptForEvent(e) IN
    IF /\ StartsWith(e.type, <<"object", "selection-changed">>)
       /\ e.source \in parents
      THEN [s EXCEPT !.outcome = "defunct-descendants"]
    ELSE IF script = None THEN [s EXCEPT !.outcome = "no-script"]
    ELSE Deliver(s, e, script)

ProcessObjectEvent(s, e, parents) ==
    IF ReturnsEarly(s, e) # "" THEN ReturnedEarly(s, e)
    ELSE Dispatch(IF PrunesOnDrain(s, e) THEN Pruned(s) ELSE s, e, parents)

ProcessInputEvent(s, e) ==
    IF s.activeScript = None THEN [s EXCEPT !.outcome = "no-active-script"]
    ELSE IF e.kind # "braille" THEN [s EXCEPT !.outcome = "not-braille"]
    ELSE [s EXCEPT !.delivered = Append(@, e.id),
                   !.outcome = IF s.raises THEN "raised" ELSE "delivered"]

(***************************************************************************)
(* _dequeue: the state after it and the value it returns (rerun).          *)
(***************************************************************************)
\* a _dequeue that resumes events only for the events that force it
Resumed_OnlyForced(s, e) ==
    IF s.eventsSuspended /\ ShouldUnsuspendEventsFor(e)
      THEN UnsuspendEvents(s, e, TRUE)
      ELSE s

\* lines 608-611, after _processObjectEvent returned
Resumed(s, e) ==
    IF DidSuspendEventsFor(s, e) THEN UnsuspendEvents(s, e, FALSE)
    ELSE IF s.eventsSuspended /\ ShouldUnsuspendEventsFor(e)
      THEN UnsuspendEvents(s, e, TRUE)
    ELSE s

\* a _dequeue that asks to be called again whatever is left in the queue
Finished_AlwaysReruns(s) == [st |-> s, rerun |-> TRUE]

\* lines 622-627
Finished(s) ==
    IF s.queue = <<>>
      THEN [st |-> [s EXCEPT !.noFocusTimeouts = @ + 1, !.gidleId = 0], rerun |-> FALSE]
      ELSE [st |-> s, rerun |-> TRUE]

Dequeue(s, parents) ==
    IF s.queue = <<>>
      THEN [st |-> [s EXCEPT !.gidleId = 0, !.outcome = "empty"], rerun |-> FALSE]
    ELSE
      LET e == Head(s.queue)
          got == [s EXCEPT !.queue = Tail(@), !.dequeued = Append(@, e.id),
                           !.drained = e, !.drainLen = Len(s.queue) - 1]
          processed == ProcessObjectEvent(got, e, parents)
      IN  IF e.kind \in {"keyboard", "braille"}
            THEN Finished(ProcessInputEvent(got, e))
          \* an exception that leaves _processObjectEvent (lines 633-634)
          ELSE IF processed.outcome = "propagated"
            THEN [st |-> processed, rerun |-> TRUE]
          ELSE Finished(Resumed(processed, e))

(***************************************************************************)
(* _addToQueue and _enqueue.                                               *)
(***************************************************************************)
\* line 383
Put(s, e) == [s EXCEPT !.queue = Append(@, e)]

\* lines 387-390
Wake(s, asyncMode) ==
    IF asyncMode /\ s.gidleId = 0
      THEN [s EXCEPT !.gidleId = 1, !.idleSources = @ + 1]
      ELSE s

AddToQueue(s, e, asyncMode) == Wake(Put(s, e), asyncMode)

synchronousToolkits == {"VCL"}

\* asyncMode of _enqueue (lines 540-551); self._asyncMode is True
AsyncMode(e) ==
    IF e.kind \in {"keyboard", "braille"} THEN TRUE
    ELSE IF e.kind = "mouse" THEN TRUE
    ELSE IF get_application_toolkit_name(e.source) \in synchronousToolkits THEN FALSE
    ELSE IF StartsWith(e.type, <<"object", "children-changed">>) THEN is_table(e.source)
    ELSE IF is_notification(e.source) THEN FALSE
    ELSE TRUE

\* pruning only in a deluge
PrunesOnArrival_Deluge(s, e) == InDeluge(s.queue) /\ PrioritizeDuringFlood(e)

\* whether _enqueue prunes the queue before it adds e (lines 532-535)
PrunesOnArrival(s, e) == InFlood(s.queue) /\ PrioritizeDuringFlood(e)

\* _enqueue from line 530 on, for an event that is not ignored
EnqueueAccepted(s, e, parents) ==
    LET pruned == IF PrunesOnArrival(s, e) THEN Pruned(s) ELSE s
        suspended ==
            IF e.kind \notin {"keyboard", "braille"} /\ ShouldSuspendEventsFor(e)
              THEN SuspendEvents(pruned, e)
              ELSE pruned
        added == AddToQueue(suspended, e, AsyncMode(e))
    IN  IF AsyncMode(e) THEN added ELSE Dequeue(added, parents).st

\* without the return for an ignored event
EnqueueFiltered_NoReturn(s, e, reason, parents) == EnqueueAccepted(s, e, parents)

\* _enqueue from line 519 on: an ignored event changes nothing
EnqueueFiltered(s, e, reason, parents) ==
    IF reason # "deliver" THEN s ELSE EnqueueAccepted(s, e, parents)

\* the places of _enqueue where the code it calls may raise an exception:
\* _ignore (line 520), _prioritizeDuringFlood (532), _shouldSuspendEventsFor
\* (537) and the lookup of the script for its event cache (552-553)
FaultPoints == {"ignore", "prioritize", "suspend", "getScript"}

\* what became of an event when the exception left _enqueue
Uncaught(point) ==
    CASE point = "prioritize" -> "uncaught in flood check"
      [] point = "suspend" -> "uncaught in suspension"
      [] OTHER -> "uncaught in script lookup"

\* a handler at lines 521-524 that lets the event pass
EnqueueRaising_Accepts(s, e, point, parents) ==
    IF point = "ignore"
      THEN [EnqueueAccepted(s, e, parents) EXCEPT !.outcome = "ignored"]
      ELSE [s EXCEPT !.outcome = Uncaught(point)]

\* _enqueue when the code it calls raises an exception at the given place.
\* An exception of _ignore is caught and the event ignored (lines 521-528);
\* nothing catches an exception from line 530 on: it leaves _enqueue with
\* what the lines before it did
EnqueueRaising(s, e, point, parents) ==
    LET pruned == IF PrunesOnArrival(s, e) THEN Pruned(s) ELSE s
        suspended ==
            IF ShouldSuspendEventsFor(e) THEN SuspendEvents(pruned, e) ELSE pruned
    IN  IF point = "ignore" THEN [s EXCEPT !.outcome = "ignored"]
        ELSE IF point = "prioritize" THEN [s EXCEPT !.outcome = Uncaught(point)]
        ELSE IF point = "suspend" THEN [pruned EXCEPT !.outcome = Uncaught(point)]
        ELSE [suspended EXCEPT !.outcome = Uncaught(point)]

(***************************************************************************)
(* The notifications of a run.                                             *)
(***************************************************************************)
\* the notifications the bus may deliver: (type, source, detail1, detail2, any_data)
Notifications ==
    { <<TextInsert, "other", 1, 1, "a">>,
      <<TextInsert, "entry", 1, 1, "a">>,
      <<TextInsert, "cell", 1, 1, "a">>,
      <<Focused, "other", 1, 0, None>>,
      <<Focused, "cell", 1, 0, None>>,
      <<Focused, "entry", 1, 0, None>>,
      <<ChildrenAdd, "other", 0, 0, "entry">>,
      <<WindowActivate, "frame", 0, 0, None>> }

\* a backlog of n insertions of one character at the offsets 1..n of src,
\* the oldest first; the events of a backlog have the ids -n .. -1
Backlog(n, src) ==
    [i \in 1..n |-> Event(i - n - 1, "object", TextInsert, src, i, 1, "a")]

\* a focus change elsewhere, then three insertions at the locus of focus,
\* then a burst of insertions elsewhere
MixedBacklog ==
    <<Event(-52, "object", Focused, "other", 1, 0, None)>>
        \o [i \in 1..3 |-> Event(i - 52, "object", TextInsert, "entry", i, 1, "a")]
        \o [i \in 1..48 |-> Event(i - 49, "object", TextInsert, "other", i, 1, "a")]

\* the lengths of the backlogs at the locus of focus and elsewhere are
\* around the thresholds of the flood and of the deluge
Backlogs ==
    {Backlog(n, "entry") : n \in {0, 3, 50, 51, 100, 101}}
        \cup {Backlog(n, "other") : n \in {51, 101, 120}}
        \cup {MixedBacklog}

ListenerTypes ==
    suspendableEvents
        \cup {TextInsert, Focused, Checked, WindowActivate, WindowDeactivate, MouseButton,
              SelectionChanged}

vars ==
    << active, queue, gidleId, idleSources, noFocusTimeouts, locusOfFocus,
       activeWindow, activeScript, parentsOfDefunctDescendants, eventsSuspended,
       eventsTriggeringSuspension, scriptListenerCounts, registered, listeners, dead,
       arrivals, idleRuns, dequeued, delivered, ignored, last, gidleLock, pc, local >>

\* the threads: the GLib main loop, and the one that delivers the
\* notifications of the bus
Threads == {"main", "producer"}

\* the local variables of a thread that is in neither _enqueue nor _dequeue
NoLocals ==
    [ e |-> NoEvent,          \* the argument of _enqueue
      asyncMode |-> TRUE,     \* asyncMode of _enqueue
      event |-> NoEvent,      \* event of _dequeue
      newQueue |-> <<>>,      \* newQueue of _pruneEventsDuringFlood
      dequeueFrom |-> "",     \* what called the _dequeue in progress
      rerun |-> TRUE,         \* rerun of _dequeue
      pruneFrom |-> "" ]      \* what called the _pruneEventsDuringFlood in progress

threadVars == <<gidleLock, pc, local>>

\* the variables a State record carries
Becomes(s) ==
    /\ queue' = s.queue
    /\ gidleId' = s.gidleId
    /\ idleSources' = s.idleSources
    /\ noFocusTimeouts' = s.noFocusTimeouts
    /\ locusOfFocus' = s.locusOfFocus
    /\ activeWindow' = s.activeWindow
    /\ activeScript' = s.activeScript
    /\ eventsSuspended' = s.eventsSuspended
    /\ eventsTriggeringSuspension' = s.eventsTriggeringSuspension
    /\ scriptListenerCounts' = s.scriptListenerCounts
    /\ registered' = s.registered
    /\ listeners' = s.listeners
    /\ dequeued' = s.dequeued
    /\ delivered' = s.delivered

\* two events that report the same thing: the same type, source, details
\* and data
SameNotification(x, e) ==
    /\ x.type = e.type
    /\ x.source = e.source
    /\ x.detail1 = e.detail1
    /\ x.detail2 = e.detail2
    /\ x.any_data = e.any_data

\* what the latest operation did: its name; the event it was given; the
\* rule of _ignore that decided; the queue length and the locus of focus it
\* started from; whether an event equal to the given one was pending;
\* whether events were suspended and for which events when it started; and,
\* from the state s it ended in, the events its prunes removed, the event
\* its _dequeue took and what became of that event
Did(op, e, reason, s) ==
    [ op |-> op, event |-> e, reason |-> reason,
      lenBefore |-> Len(queue), locusBefore |-> locusOfFocus,
      duplicate |-> \E i \in 1..Len(queue) : SameNotification(queue[i], e),
      suspendedBefore |-> eventsSuspended,
      triggersBefore |-> eventsTriggeringSuspension,
      removed |-> s.removed, drained |-> s.drained, drainLen |-> s.drainLen,
      outcome |-> s.outcome ]

\* last, when the latest step was not a call of _enqueue or _dequeue
NoOperation ==
    [ op |-> "none", event |-> NoEvent, reason |-> "",
      lenBefore |-> 0, locusBefore |-> None, duplicate |-> FALSE,
      suspendedBefore |-> FALSE, triggersBefore |-> <<>>,
      removed |-> <<>>, drained |-> NoEvent, drainLen |-> 0, outcome |-> "" ]

(***************************************************************************)
(* The manager after activate(), with the backlog an earlier burst of      *)
(* notifications left in the queue and the idle callback it installed; or  *)
(* the manager as constructed.                                             *)
(***************************************************************************)
InitCommon ==
    /\ noFocusTimeouts = 0
    /\ parentsOfDefunctDescendants = {}
    /\ eventsSuspended = FALSE
    /\ eventsTriggeringSuspension = <<>>
    /\ dead = {}
    /\ arrivals = 0
    /\ idleRuns = 0
    /\ dequeued = <<>>
    /\ delivered = <<>>
    /\ ignored = {}
    /\ gidleLock = None
    /\ pc = [t \in Threads |-> "idle"]
    /\ local = [t \in Threads |-> NoLocals]
    /\ last = NoOperation

InitConstructed ==
    /\ active = FALSE
    /\ queue = <<>>
    /\ gidleId = 0
    /\ idleSources = 0
    /\ locusOfFocus = None
    /\ activeWindow = None
    /\ activeScript = None
    /\ scriptListenerCounts = [t \in ListenerTypes |-> 0]
    /\ registered = {}
    /\ listeners = scriptListenerCounts

InitRunning ==
    /\ active = TRUE
    /\ gidleId = IF queue = <<>> THEN 0 ELSE 1
    /\ idleSources = gidleId
    /\ locusOfFocus = "entry"
    /\ activeWindow = "frame"
    /\ activeScript = "gedit"
    /\ scriptListenerCounts = [t \in ListenerTypes |-> 1]
    /\ registered = ListenerTypes
    /\ listeners = scriptListenerCounts

\* the manager after the start of the screen reader: activated, the default
\* script active and its listeners registered, nothing focused yet
InitStarted ==
    /\ active = TRUE
    /\ queue = <<>>
    /\ gidleId = 0
    /\ idleSources = 0
    /\ locusOfFocus = None
    /\ activeWindow = None
    /\ activeScript = "default"
    /\ scriptListenerCounts = [t \in ListenerTypes |-> 1]
    /\ registered = ListenerTypes
    /\ listeners = scriptListenerCounts

Init ==
    InitCommon /\ (InitConstructed \/ InitStarted \/ (queue \in Backlogs /\ InitRunning))

(***************************************************************************)
(* The operations, each as one step.                                       *)
(***************************************************************************)
\* the listener callback: _enqueue(e) for a notification of the bus, which
\* notifies of the types registered at the listener; raises tells whether
\* the script raises an exception if this call reaches it
EnqueueWhen(n, raises) ==
    /\ UNCHANGED threadVars
    /\ n[1] \in registered
    /\ arrivals < MaxArrivals
    /\ arrivals' = arrivals + 1
    /\ LET e == Event(arrivals + 1, "object", n[1], n[2], n[3], n[4], n[5])
           reason == IgnoreReason(e)
           parents == ParentsAfterIgnore(e)
           after == EnqueueFiltered([State EXCEPT !.raises = raises], e, reason, parents)
       IN  /\ parentsOfDefunctDescendants' = parents
           /\ ignored' = IF reason # "deliver" THEN ignored \cup {<<e.id, reason>>}
                                                  ELSE ignored
           /\ Becomes(after)
           /\ last' = Did("enqueue", e, reason, after)
    /\ UNCHANGED <<active, dead, idleRuns>>

\* with scripts that raise no exception
Enqueue(n) == EnqueueWhen(n, FALSE)

\* processBrailleEvent: a key of the braille display, enqueued when the
\* active script consumes it
ProcessBrailleEvent ==
    /\ UNCHANGED threadVars
    /\ arrivals < MaxArrivals
    /\ arrivals' = arrivals + 1
    /\ LET e == Event(arrivals + 1, "braille", BrailleType, None, 0, 0, None)
           reason == IF activeScript = None THEN "not-consumed" ELSE "deliver"
           after == EnqueueFiltered(State, e, reason, parentsOfDefunctDescendants)
       IN  /\ Becomes(after)
           /\ last' = Did("enqueue", e, reason, after)
    /\ UNCHANGED <<active, dead, idleRuns, ignored, parentsOfDefunctDescendants>>

\* the main loop runs an installed idle callback: _dequeue(); the callback
\* is removed when it returns False
IdleDequeueWhen(raises) ==
    /\ UNCHANGED threadVars
    /\ idleSources > 0
    /\ idleRuns < MaxIdleRuns
    /\ idleRuns' = idleRuns + 1
    /\ LET r == Dequeue([State EXCEPT !.raises = raises], parentsOfDefunctDescendants) IN
       /\ Becomes([r.st EXCEPT !.idleSources = IF r.rerun THEN @ ELSE @ - 1])
       /\ last' = Did("dequeue", NoEvent, "", r.st)
    /\ UNCHANGED <<active, dead, arrivals, ignored, parentsOfDefunctDescendants>>

\* with scripts that raise no exception
IdleDequeue == IdleDequeueWhen(FALSE)

\* the main loop runs an installed timeout: _onNoFocus()
OnNoFocus ==
    /\ UNCHANGED threadVars
    /\ noFocusTimeouts > 0
    /\ noFocusTimeouts' = noFocusTimeouts - 1
    /\ activeScript' =
          IF locusOfFocus = None /\ activeWindow = None /\ activeScript = None
            THEN "default" ELSE activeScript
    /\ last' = NoOperation
    /\ UNCHANGED <<active, queue, gidleId, idleSources, locusOfFocus, activeWindow,
                   parentsOfDefunctDescendants, eventsSuspended,
                   eventsTriggeringSuspension, scriptListenerCounts, registered,
                   listeners, dead, arrivals, idleRuns, dequeued, delivered, ignored>>

Activate ==
    /\ UNCHANGED threadVars
    /\ ~active
    /\ active' = TRUE
    /\ last' = NoOperation
    /\ UNCHANGED <<queue, gidleId, idleSources, noFocusTimeouts, locusOfFocus,
                   activeWindow, activeScript, parentsOfDefunctDescendants,
                   eventsSuspended, eventsTriggeringSuspension, scriptListenerCounts,
                   registered, listeners, dead, arrivals, idleRuns, dequeued, delivered,
                   ignored>>

Deactivate ==
    /\ UNCHANGED threadVars
    /\ active' = FALSE
    /\ queue' = <<>>
    /\ scriptListenerCounts' = [t \in ListenerTypes |-> 0]
    /\ listeners' = scriptListenerCounts'
    /\ last' = NoOperation
    /\ UNCHANGED <<gidleId, idleSources, noFocusTimeouts, locusOfFocus, activeWindow,
                   activeScript, parentsOfDefunctDescendants, eventsSuspended,
                   eventsTriggeringSuspension, registered, dead, arrivals,
                   idleRuns, dequeued, delivered, ignored>>

\* the application destroys one of its objects
SourceDies(obj) ==
    /\ UNCHANGED threadVars
    /\ obj \notin dead
    /\ dead' = dead \cup {obj}
    /\ last' = NoOperation
    /\ UNCHANGED <<active, queue, gidleId, idleSources, noFocusTimeouts, locusOfFocus,
                   activeWindow, activeScript, parentsOfDefunctDescendants,
                   eventsSuspended, eventsTriggeringSuspension, scriptListenerCounts,
                   registered, listeners, arrivals, idleRuns, dequeued, delivered,
                   ignored>>

Next ==
    \/ \E n \in Notifications : Enqueue(n)
    \/ ProcessBrailleEvent
    \/ IdleDequeue
    \/ OnNoFocus
    \/ Activate
    \/ Deactivate
    \/ \E obj \in Mortal : SourceDies(obj)

Spec == Init /\ [][Next]_vars

(***************************************************************************)
(* The same operations statement by statement, with the notifications of   *)
(* the bus delivered on a thread of their own while the main loop runs the *)
(* idle callback.  queue.Queue makes put, get and get_nowait atomic;       *)
(* nothing else is, except what _gidleLock covers.                         *)
(***************************************************************************)
Goes(t, label, locals) ==
    /\ pc' = [pc EXCEPT ![t] = label]
    /\ local' = [local EXCEPT ![t] = locals]

\* the listener callback on the producer thread: _enqueue(e) up to the
\* return for an ignored event (lines 503-528)
EnqueueBegin(n) ==
    /\ pc["producer"] = "idle"
    /\ n[1] \in registered
    /\ arrivals < MaxArrivals
    /\ arrivals' = arrivals + 1
    /\ LET e == Event(arrivals + 1, "object", n[1], n[2], n[3], n[4], n[5])
           reason == IgnoreReason(e)
       IN  /\ parentsOfDefunctDescendants' = ParentsAfterIgnore(e)
           /\ ignored' = IF reason # "deliver" THEN ignored \cup {<<e.id, reason>>}
                                                  ELSE ignored
           /\ IF reason # "deliver"
                THEN UNCHANGED <<pc, local>>
                ELSE Goes("producer", "enqueue_flood", [NoLocals EXCEPT !.e = e])
    /\ Becomes(State)
    /\ UNCHANGED <<active, dead, idleRuns, last, gidleLock>>

\* lines 532-535
EnqueueFloodCheck(t) ==
    /\ pc[t] = "enqueue_flood"
    /\ IF PrunesOnArrival(State, local[t].e)
         THEN Goes(t, "prune_check", [local[t] EXCEPT !.pruneFrom = "_enqueue"])
         ELSE Goes(t, "enqueue_add", local[t])
    /\ Becomes(State)
    /\ UNCHANGED <<active, parentsOfDefunctDescendants, dead, arrivals, idleRuns,
                   ignored, last, gidleLock>>

\* line 940
PruneCheck(t) ==
    /\ pc[t] = "prune_check"
    /\ Goes(t, IF queue = <<>> THEN "prune_swap" ELSE "prune_get", local[t])
    /\ Becomes(State)
    /\ UNCHANGED <<active, parentsOfDefunctDescendants, dead, arrivals, idleRuns,
                   ignored, last, gidleLock>>

\* lines 942-949; get() waits while the queue is empty
PruneGet(t) ==
    /\ pc[t] = "prune_get"
    /\ queue # <<>>
    /\ Becomes([State EXCEPT !.queue = Tail(@)])
    /\ Goes(t, "prune_check",
            [local[t] EXCEPT !.newQueue =
                IF ProcessDuringFlood(Head(queue), locusOfFocus)
                  THEN Append(@, Head(queue)) ELSE @])
    /\ UNCHANGED <<active, parentsOfDefunctDescendants, dead, arrivals, idleRuns,
                   ignored, last, gidleLock>>

\* line 951.  A thread that waits in get() waits at the queue this replaces,
\* to which nothing is put any more.
PruneSwap(t) ==
    /\ pc[t] = "prune_swap"
    /\ Becomes([State EXCEPT !.queue = local[t].newQueue])
    /\ \E waiting \in SUBSET {u \in Threads \ {t} : pc[u] = "prune_get" /\ queue = <<>>} :
          pc' = [u \in Threads |->
                    IF u = t
                      THEN IF local[t].pruneFrom = "_enqueue"
                             THEN "enqueue_add" ELSE "dequeue_dispatch"
                    ELSE IF u \in waiting THEN "blocked"
                    ELSE pc[u]]
    /\ local' = [local EXCEPT ![t].newQueue = <<>>, ![t].pruneFrom = ""]
    /\ UNCHANGED <<active, parentsOfDefunctDescendants, dead, arrivals, idleRuns,
                   ignored, last, gidleLock>>

\* lines 536-553 and _addToQueue up to the put (lines 376-383)
EnqueueAdd(t) ==
    /\ pc[t] = "enqueue_add"
    /\ gidleLock = None
    /\ gidleLock' = t
    /\ LET e == local[t].e
           suspended == IF ShouldSuspendEventsFor(e) THEN SuspendEvents(State, e)
                                                     ELSE State
       IN  /\ Becomes(Put(suspended, e))
           /\ Goes(t, "enqueue_wake", [local[t] EXCEPT !.asyncMode = AsyncMode(e)])
    /\ UNCHANGED <<active, parentsOfDefunctDescendants, dead, arrivals, idleRuns,
                   ignored, last>>

\* _addToQueue without its release: the synchronous _dequeue runs with the
\* lock still held
EnqueueWake_KeepsLock(t) ==
    /\ pc[t] = "enqueue_wake"
    /\ gidleLock' = IF local[t].asyncMode THEN None ELSE gidleLock
    /\ Becomes(Wake(State, local[t].asyncMode))
    /\ IF local[t].asyncMode
         THEN Goes(t, "idle", NoLocals)
         ELSE Goes(t, "dequeue_get", [local[t] EXCEPT !.dequeueFrom = "_enqueue"])
    /\ UNCHANGED <<active, parentsOfDefunctDescendants, dead, arrivals, idleRuns,
                   ignored, last>>

\* the rest of _addToQueue (lines 387-394), and the call of _dequeue for a
\* synchronous event (lines 556-557)
EnqueueWake(t) ==
    /\ pc[t] = "enqueue_wake"
    /\ gidleLock' = None
    /\ Becomes(Wake(State, local[t].asyncMode))
    /\ IF local[t].asyncMode
         THEN Goes(t, "idle", NoLocals)
         ELSE Goes(t, "dequeue_get", [local[t] EXCEPT !.dequeueFrom = "_enqueue"])
    /\ UNCHANGED <<active, parentsOfDefunctDescendants, dead, arrivals, idleRuns,
                   ignored, last>>

\* the main loop calls an installed idle callback
IdleBegin ==
    /\ pc["main"] = "idle"
    /\ idleSources > 0
    /\ idleRuns < MaxIdleRuns
    /\ idleRuns' = idleRuns + 1
    /\ Goes("main", "dequeue_get", [NoLocals EXCEPT !.dequeueFrom = "idle_add"])
    /\ Becomes(State)
    /\ UNCHANGED <<active, parentsOfDefunctDescendants, dead, arrivals, ignored,
                   last, gidleLock>>

\* the callback is removed from the main loop when _dequeue returns False
Returned(s, t, rerun) ==
    IF local[t].dequeueFrom = "idle_add" /\ ~rerun
      THEN [s EXCEPT !.idleSources = @ - 1] ELSE s

\* a _dequeue that reads the head of the queue and leaves it there
DequeueGet_Peek(t) ==
    /\ pc[t] = "dequeue_get"
    /\ IF queue = <<>>
         THEN /\ Becomes(Returned([State EXCEPT !.gidleId = 0], t, FALSE))
              /\ Goes(t, "idle", NoLocals)
         ELSE /\ Becomes([State EXCEPT !.dequeued = Append(@, Head(queue).id)])
              /\ Goes(t, "dequeue_process", [local[t] EXCEPT !.event = Head(queue)])
    /\ UNCHANGED <<active, parentsOfDefunctDescendants, dead, arrivals, idleRuns,
                   ignored, last, gidleLock>>

\* line 591, and lines 628-632 when the queue is empty
DequeueGet(t) ==
    /\ pc[t] = "dequeue_get"
    /\ IF queue = <<>>
         THEN /\ Becomes(Returned([State EXCEPT !.gidleId = 0], t, FALSE))
              /\ Goes(t, "idle", NoLocals)
         ELSE /\ Becomes([State EXCEPT !.queue = Tail(@),
                                       !.dequeued = Append(@, Head(queue).id)])
              /\ Goes(t, "dequeue_process", [local[t] EXCEPT !.event = Head(queue)])
    /\ UNCHANGED <<active, parentsOfDefunctDescendants, dead, arrivals, idleRuns,
                   ignored, last, gidleLock>>

\* _processObjectEvent up to the call of _pruneEventsDuringFlood (lines
\* 966-1013), with lines 608-611 when it returns early
DequeueProcess(t) ==
    /\ pc[t] = "dequeue_process"
    /\ LET e == local[t].event IN
       IF e.kind \in {"keyboard", "braille"}
         THEN /\ Becomes(ProcessInputEvent(State, e))
              /\ Goes(t, "dequeue_finish", local[t])
       ELSE IF ReturnsEarly(State, e) # ""
         THEN /\ Becomes(Resumed(ReturnedEarly(State, e), e))
              /\ Goes(t, "dequeue_finish", local[t])
       ELSE /\ Becomes(State)
            /\ IF PrunesOnDrain(State, e)
                 THEN Goes(t, "prune_check",
                           [local[t] EXCEPT !.pruneFrom = "_processObjectEvent"])
                 ELSE Goes(t, "dequeue_dispatch", local[t])
    /\ UNCHANGED <<active, parentsOfDefunctDescendants, dead, arrivals, idleRuns,
                   ignored, last, gidleLock>>

\* the rest of _processObjectEvent (lines 1015-1053) and lines 608-611
DequeueDispatch(t) ==
    /\ pc[t] = "dequeue_dispatch"
    /\ Becomes(Resumed(Dispatch(State, local[t].event, parentsOfDefunctDescendants),
                       local[t].event))
    /\ Goes(t, "dequeue_finish", local[t])
    /\ UNCHANGED <<active, parentsOfDefunctDescendants, dead, arrivals, idleRuns,
                   ignored, last, gidleLock>>

\* lines 622-626: the lock is taken, the queue looked at and the token reset
DequeueFinish(t) ==
    /\ pc[t] = "dequeue_finish"
    /\ gidleLock = None
    /\ gidleLock' = t
    /\ Becomes(Finished(State).st)
    /\ Goes(t, "dequeue_release", [local[t] EXCEPT !.rerun = Finished(State).rerun])
    /\ UNCHANGED <<active, parentsOfDefunctDescendants, dead, arrivals, idleRuns,
                   ignored, last>>

\* line 627 and the return (line 641)
DequeueRelease(t) ==
    /\ pc[t] = "dequeue_release"
    /\ gidleLock' = None
    /\ Becomes(Returned(State, t, local[t].rerun))
    /\ Goes(t, "idle", NoLocals)
    /\ UNCHANGED <<active, parentsOfDefunctDescendants, dead, arrivals, idleRuns,
                   ignored, last>>

\* the notifications of the statement-by-statement runs: a focus change in
\* an application of a synchronous toolkit, and an insertion elsewhere
ThreadNotifications ==
    { <<Focused, "cell", 1, 0, None>>,
      <<TextInsert, "other", 1, 1, "a">> }

\* the backlogs from which the statement-by-statement runs start
ThreadBacklogs == {<<>>, Backlog(3, "entry"), MixedBacklog}

InitThreads == InitCommon /\ queue \in ThreadBacklogs /\ InitRunning

\* a step of a thread other than the arrival of a notification
ThreadStep ==
    \/ IdleBegin
    \/ \E t \in Threads : EnqueueFloodCheck(t)
    \/ \E t \in Threads : PruneCheck(t)
    \/ \E t \in Threads : PruneGet(t)
    \/ \E t \in Threads : PruneSwap(t)
    \/ \E t \in Threads : EnqueueAdd(t)
    \/ \E t \in Threads : EnqueueWake(t)
    \/ \E t \in Threads : DequeueGet(t)
    \/ \E t \in Threads : DequeueProcess(t)
    \/ \E t \in Threads : DequeueDispatch(t)
    \/ \E t \in Threads : DequeueFinish(t)
    \/ \E t \in Threads : DequeueRelease(t)

NextThreads ==
    \/ \E n \in ThreadNotifications : EnqueueBegin(n)
    \/ ThreadStep

SpecThreads == InitThreads /\ [][NextThreads]_vars

\* the same threads, the producer delivering notifications that suspend
\* events
ProducerNotifications ==
    { <<WindowActivate, "dialog", 0, 0, None>>,
      <<TextInsert, "other", 1, 1, "a">> }

NextProducers ==
    \/ \E n \in ProducerNotifications : EnqueueBegin(n)
    \/ ThreadStep

SpecProducers == InitThreads /\ [][NextProducers]_vars

(***************************************************************************)
(* The same threads with the end of _processObjectEvent in two steps: the  *)
(* choice and the switch of the script, then the call of the script.  The  *)
(* queue is short, so that nothing is pruned.                              *)
(***************************************************************************)
\* lines 1015-1046: the script is looked up, _isActivatableEvent asked and
\* the script made the active one; with lines 608-611 when
\* _processObjectEvent returns without a script
DispatchActivate(t) ==
    /\ pc[t] = "dequeue_dispatch"
    /\ LET e == local[t].event
           script == GetScriptForEvent(e)
           dropped == /\ StartsWith(e.type, <<"object", "selection-changed">>)
                      /\ e.source \in parentsOfDefunctDescendants
       IN  IF dropped \/ script = None
             THEN /\ Becomes(Resumed(Dispatch(State, e, parentsOfDefunctDescendants), e))
                  /\ Goes(t, "dequeue_finish", local[t])
           ELSE IF IsActivatableEvent(State, e, script)
             THEN /\ Becomes([State EXCEPT !.activeScript = script])
                  /\ Goes(t, "dispatch_switched", local[t])
           ELSE /\ Becomes(State)
                /\ Goes(t, "dispatch_deliver", local[t])
    /\ UNCHANGED <<active, parentsOfDefunctDescendants, dead, arrivals, idleRuns,
                   ignored, last, gidleLock>>

\* lines 1048-1053: script.processObjectEvent(event), and lines 608-611
DispatchDeliver(t) ==
    \* the thread is between the choice of the script and its call
    /\ pc[t] \in {"dispatch_switched", "dispatch_deliver"}
    /\ LET e == local[t].event
           processed == [ScriptProcessObjectEvent(State, e) EXCEPT !.outcome = "delivered"]
       IN  Becomes(Resumed(processed, e))
    /\ Goes(t, "dequeue_finish", local[t])
    /\ UNCHANGED <<active, parentsOfDefunctDescendants, dead, arrivals, idleRuns,
                   ignored, last, gidleLock>>

\* these runs start with nothing pending or with one insertion pending
InitDispatch == InitCommon /\ queue \in {<<>>, Backlog(1, "entry")} /\ InitRunning

NextDispatch ==
    \/ \E n \in ThreadNotifications : EnqueueBegin(n)
    \/ IdleBegin
    \/ \E t \in Threads : EnqueueFloodCheck(t)
    \/ \E t \in Threads : EnqueueAdd(t)
    \/ \E t \in Threads : EnqueueWake(t)
    \/ \E t \in Threads : DequeueGet(t)
    \/ \E t \in Threads : DequeueProcess(t)
    \/ \E t \in Threads : DispatchActivate(t)
    \/ \E t \in Threads : DispatchDeliver(t)
    \/ \E t \in Threads : DequeueFinish(t)
    \/ \E t \in Threads : DequeueRelease(t)

SpecDispatch == InitDispatch /\ [][NextDispatch]_vars

(***************************************************************************)
(* The operations with scripts that may raise an exception when called.    *)
(***************************************************************************)
FaultBacklogs == {<<>>, Backlog(3, "entry"), MixedBacklog}

FaultNotifications ==
    { <<Focused, "cell", 1, 0, None>>,
      <<Focused, "other", 1, 0, None>>,
      <<TextInsert, "other", 1, 1, "a">>,
      <<WindowActivate, "frame", 0, 0, None>> }

InitFaults == InitCommon /\ queue \in FaultBacklogs /\ InitRunning

\* _enqueue(e) for a notification of the bus, the code it calls raising an
\* exception at the given place; an exception of _ignore may come before
\* or after _ignore updated the parents of defunct descendants
EnqueueFault(n, point) ==
    /\ UNCHANGED threadVars
    /\ n[1] \in registered
    /\ arrivals < MaxArrivals
    /\ arrivals' = arrivals + 1
    /\ LET e == Event(arrivals + 1, "object", n[1], n[2], n[3], n[4], n[5])
           reason == IgnoreReason(e)
           after == EnqueueRaising(State, e, point, ParentsAfterIgnore(e))
       IN  /\ IF point = "ignore" THEN reason # "inactive" ELSE reason = "deliver"
           /\ parentsOfDefunctDescendants' \in
                  IF point = "ignore"
                    THEN {parentsOfDefunctDescendants, ParentsAfterIgnore(e)}
                    ELSE {ParentsAfterIgnore(e)}
           /\ ignored' = IF point = "ignore" THEN ignored \cup {<<e.id, "exception">>}
                                               ELSE ignored
           /\ Becomes(after)
           /\ last' = Did("enqueue", e, IF point = "ignore" THEN "exception" ELSE reason,
                          after)
    /\ UNCHANGED <<active, dead, idleRuns>>

NextFaults ==
    \/ \E n \in FaultNotifications, raises \in BOOLEAN : EnqueueWhen(n, raises)
    \/ \E n \in FaultNotifications, point \in FaultPoints : EnqueueFault(n, point)
    \/ \E raises \in BOOLEAN : IdleDequeueWhen(raises)
    \/ ProcessBrailleEvent

SpecFaults == InitFaults /\ [][NextFaults]_vars

(***************************************************************************)
(* The scripts register and deregister their listeners while the manager   *)
(* is activated, deactivated and notified.                                 *)
(***************************************************************************)
\* registerListener(eventType), as registerScriptListeners calls it
RegisterListener(eventType) ==
    /\ UNCHANGED threadVars
    /\ scriptListenerCounts[eventType] < MaxListeners
    /\ listeners[eventType] < MaxListeners
    /\ scriptListenerCounts' = registerListener(scriptListenerCounts, eventType)
    /\ registered' = ListenerAfterRegister(registered, scriptListenerCounts, eventType)
    /\ listeners' = [listeners EXCEPT ![eventType] = @ + 1]
    /\ last' = NoOperation
    /\ UNCHANGED <<active, queue, gidleId, idleSources, noFocusTimeouts, locusOfFocus,
                   activeWindow, activeScript, parentsOfDefunctDescendants,
                   eventsSuspended, eventsTriggeringSuspension, dead, arrivals,
                   idleRuns, dequeued, delivered, ignored>>

\* deregisterListener(eventType), as deregisterScriptListeners calls it for
\* a script that registered the type
DeregisterListener(eventType) ==
    /\ UNCHANGED threadVars
    /\ listeners[eventType] > 0
    /\ listeners' = [listeners EXCEPT ![eventType] = @ - 1]
    /\ scriptListenerCounts' = deregisterListener(scriptListenerCounts, eventType)
    /\ registered' = ListenerAfterDeregister(registered, scriptListenerCounts, eventType)
    /\ last' = NoOperation
    /\ UNCHANGED <<active, queue, gidleId, idleSources, noFocusTimeouts, locusOfFocus,
                   activeWindow, activeScript, parentsOfDefunctDescendants,
                   eventsSuspended, eventsTriggeringSuspension, dead, arrivals,
                   idleRuns, dequeued, delivered, ignored>>

\* the types the scripts of these runs listen for: two of the suspendable
\* ones and two others
ScriptListeners == {ChildrenAdd, Showing, WindowActivate, Focused}

ListenerNotifications ==
    { <<WindowActivate, "frame", 0, 0, None>>,
      <<Focused, "other", 1, 0, None>>,
      <<ChildrenAdd, "other", 0, 0, "entry">> }

InitListeners == InitCommon /\ (InitConstructed \/ InitStarted)

NextListeners ==
    \/ \E t \in ScriptListeners : RegisterListener(t)
    \/ \E t \in ScriptListeners : DeregisterListener(t)
    \/ Activate
    \/ Deactivate
    \/ \E n \in ListenerNotifications : Enqueue(n)
    \/ IdleDequeue

SpecListeners == InitListeners /\ [][NextListeners]_vars

(***************************************************************************)
(* The scripts register and deregister while windows are activated and the *)
(* events suspended for them: the manager is activated once and stays so.  *)
(***************************************************************************)
NextSubscriptions ==
    \/ \E t \in ScriptListeners : RegisterListener(t)
    \/ \E t \in ScriptListeners : DeregisterListener(t)
    \/ Activate
    \/ \E n \in ListenerNotifications : Enqueue(n)
    \/ IdleDequeue

SpecSubscriptions == InitListeners /\ [][NextSubscriptions]_vars

(***************************************************************************)
(* The manager while events are suspended for a window activation that is  *)
(* pending in front of a burst of insertions: the window was activated,    *)
(* then the burst arrived.  The application may close that window, and     *)
(* another window of it may be activated.                                  *)
(***************************************************************************)
SuspendedBacklog ==
    <<Event(-52, "object", WindowActivate, "frame", 0, 0, None)>>
        \o [i \in 1..51 |-> Event(i - 52, "object", TextInsert, "other", i, 1, "a")]

InitSuspended ==
    /\ noFocusTimeouts = 0
    /\ parentsOfDefunctDescendants = {}
    /\ dead = {}
    /\ arrivals = 0
    /\ idleRuns = 0
    /\ dequeued = <<>>
    /\ delivered = <<>>
    /\ ignored = {}
    /\ gidleLock = None
    /\ pc = [t \in Threads |-> "idle"]
    /\ local = [t \in Threads |-> NoLocals]
    /\ last = NoOperation
    /\ active = TRUE
    /\ queue = SuspendedBacklog
    /\ gidleId = 1
    /\ idleSources = 1
    /\ locusOfFocus = "entry"
    /\ activeWindow = None
    /\ activeScript = "gedit"
    /\ eventsSuspended = TRUE
    /\ eventsTriggeringSuspension = <<-52>>
    /\ scriptListenerCounts = [t \in ListenerTypes |-> IF t \in suspendableEvents THEN 0 ELSE 1]
    /\ registered = ListenerTypes \ suspendableEvents
    /\ listeners = [t \in ListenerTypes |-> 1]

SuspendedNotifications ==
    { <<WindowActivate, "dialog", 0, 0, None>>,
      <<Focused, "other", 1, 0, None>>,
      <<TextInsert, "other", 1, 1, "a">>,
      <<TextInsert, "entry", 1, 1, "a">> }

NextSuspended ==
    \/ \E n \in SuspendedNotifications : Enqueue(n)
    \/ IdleDequeue
    \/ SourceDies("frame")

SpecSuspended == InitSuspended /\ [][NextSuspended]_vars

(***************************************************************************)
(* The active window is deactivated and dies; the timeout that _dequeue    *)
(* installs when it leaves the queue empty calls _onNoFocus.               *)
(***************************************************************************)
FocusNotifications ==
    { <<WindowDeactivate, "frame", 0, 0, None>>,
      <<WindowActivate, "dialog", 0, 0, None>>,
      <<Focused, "other", 1, 0, None>>,
      <<Focused, "cell", 1, 0, None>>,
      <<TextInsert, "other", 1, 1, "a">> }

FocusBacklogs == {<<>>, Backlog(1, "other")}

InitFocus == InitCommon /\ queue \in FocusBacklogs /\ InitRunning

NextFocus ==
    \/ \E n \in FocusNotifications : Enqueue(n)
    \/ IdleDequeue
    \/ OnNoFocus
    \/ SourceDies("frame")

SpecFocus == InitFocus /\ [][NextFocus]_vars

(***************************************************************************)
(* Windows of the application are activated and objects of it and of       *)
(* another application claim the focus, each event being processed by      *)
(* _dequeue: the questions put to _isActivatableEvent.                     *)
(***************************************************************************)
DeciderNotifications ==
    { <<WindowActivate, "frame", 0, 0, None>>,
      <<WindowActivate, "dialog", 0, 0, None>>,
      <<Focused, "cell", 1, 0, None>>,
      <<Focused, "other", 1, 0, None>>,
      <<Focused, "other", 0, 0, None>>,
      <<Checked, "cell", 1, 0, None>>,
      <<TextInsert, "cell", 1, 1, "a">> }

InitDecider == InitCommon /\ queue \in FocusBacklogs /\ InitRunning

NextDecider ==
    \/ \E n \in DeciderNotifications : Enqueue(n)
    \/ IdleDequeue

SpecDecider == InitDecider /\ [][NextDecider]_vars

(***************************************************************************)
(* A table that manages its descendants and a text that does not report    *)
(* children that come and go, and the table reports changes of its         *)
(* selection, while the application destroys the entry.                    *)
(***************************************************************************)
DescendantNotifications ==
    { <<ChildrenAdd, "table", 0, 0, "entry">>,
      <<ChildrenAdd, "table", 0, 0, "other">>,
      <<ChildrenRemove, "table", 0, 0, "entry">>,
      <<ChildrenAdd, "other", 0, 0, "entry">>,
      <<SelectionChanged, "table", 0, 0, None>>,
      <<SelectionChanged, "other", 0, 0, None>> }

\* the locus of focus of these runs is the entry the application may
\* destroy, or the text
InitDescendants ==
    /\ InitCommon
    /\ active = TRUE
    /\ queue = <<>>
    /\ gidleId = 0
    /\ idleSources = 0
    /\ locusOfFocus \in {"entry", "other"}
    /\ activeWindow = "frame"
    /\ activeScript = "gedit"
    /\ scriptListenerCounts = [t \in ListenerTypes |-> 1]
    /\ registered = ListenerTypes
    /\ listeners = scriptListenerCounts

NextDescendants ==
    \/ \E n \in DescendantNotifications : Enqueue(n)
    \/ IdleDequeue
    \/ SourceDies("entry")

SpecDescendants == InitDescendants /\ [][NextDescendants]_vars

(***************************************************************************)
(* Insertions and deletions keep arriving while about as many events are   *)
(* pending as the deluge threshold allows.                                 *)
(***************************************************************************)
DelugeNotifications ==
    { <<TextInsert, "other", 200, 1, "a">>,
      <<TextDelete, "other", 200, 1, "a">>,
      <<TextInsert, "entry", 200, 1, "a">>,
      <<TextInsert, "cell", 200, 1, "a">>,
      <<Checked, "other", 1, 0, None>> }

\* bursts elsewhere around the threshold, and a focus change elsewhere that
\* is still pending in front of the insertions made at the locus of focus since
DelugeBacklogs ==
    {Backlog(99, "other"), Backlog(100, "other"), Backlog(101, "other"),
     <<Event(-103, "object", Focused, "other", 1, 0, None)>> \o Backlog(102, "entry")}

InitDeluge == InitCommon /\ queue \in DelugeBacklogs /\ InitRunning

NextDeluge ==
    \/ \E n \in DelugeNotifications : Enqueue(n)
    \/ IdleDequeue

SpecDeluge == InitDeluge /\ [][NextDeluge]_vars

(***************************************************************************)
(* The application closes windows and destroys objects while their events  *)
(* are pending or on their way: the frame is the active window, the dialog *)
(* is another window of the application.                                   *)
(***************************************************************************)
DeadSourceNotifications ==
    { <<WindowDeactivate, "dialog", 0, 0, None>>,
      <<WindowDeactivate, "frame", 0, 0, None>>,
      <<TextInsert, "other", 1, 1, "a">> }

InitDeadSource == InitCommon /\ queue = <<>> /\ InitRunning

NextDeadSource ==
    \/ \E n \in DeadSourceNotifications : Enqueue(n)
    \/ IdleDequeue
    \/ \E obj \in {"dialog", "frame", "other"} : SourceDies(obj)

SpecDeadSource == InitDeadSource /\ [][NextDeadSource]_vars

(***************************************************************************)
(* The queue is drained while it holds more events than the flood          *)
(* threshold, insertions at the locus of focus or elsewhere, and further   *)
(* events arrive.                                                          *)
(***************************************************************************)
FloodNotifications ==
    { <<TextInsert, "other", 1, 1, "a">>,
      <<TextInsert, "entry", 1, 1, "a">>,
      <<Checked, "other", 1, 0, None>>,
      <<Checked, "cell", 1, 0, None>>,
      <<Focused, "other", 1, 0, None>> }

\* bursts elsewhere and at the locus of focus, and a state change that is
\* not of a high-volume type in front of a burst
FloodBacklogs ==
    {Backlog(52, "other"), Backlog(52, "entry"),
     <<Event(-53, "object", Checked, "other", 1, 0, None)>> \o Backlog(52, "other")}

InitFlood == InitCommon /\ queue \in FloodBacklogs /\ InitRunning

NextFlood ==
    \/ \E n \in FloodNotifications : Enqueue(n)
    \/ IdleDequeue

SpecFlood == InitFlood /\ [][NextFlood]_vars

(***************************************************************************)
(* Window and mouse button events arrive at a manager that is running or   *)
(* deactivated, in a flood or a deluge of insertions at the locus of       *)
(* focus, from sources that may have died.                                 *)
(***************************************************************************)
WindowNotifications ==
    { <<WindowActivate, "frame", 0, 0, None>>,
      <<WindowDeactivate, "frame", 0, 0, None>>,
      <<MouseButton, "other", 0, 0, None>>,
      <<TextInsert, "other", 1, 1, "a">> }

WindowBacklogs == {<<>>, Backlog(51, "entry"), Backlog(101, "entry")}

InitWindows == InitCommon /\ queue \in WindowBacklogs /\ InitRunning

NextWindows ==
    \/ \E n \in WindowNotifications : Enqueue(n)
    \/ IdleDequeue
    \/ Deactivate
    \/ Activate
    \/ \E obj \in {"frame", "other"} : SourceDies(obj)

SpecWindows == InitWindows /\ [][NextWindows]_vars

TypeOK ==
    /\ active \in BOOLEAN
    /\ gidleLock \in Threads \cup {None}
    /\ DOMAIN pc = Threads
    /\ DOMAIN local = Threads
    /\ gidleId \in {0, 1}
    /\ idleSources \in Nat
    /\ dead \subseteq Objects
    /\ registered \subseteq ListenerTypes
    /\ scriptListenerCounts \in [ListenerTypes -> Nat]
    /\ listeners \in [ListenerTypes -> Nat]

(***************************************************************************)
(* Properties.                                                             *)
(***************************************************************************)
Ids(q) == {q[i].id : i \in 1..Len(q)}

Elems(seq) == {seq[i] : i \in 1..Len(seq)}

IsObjectEvent(e) == e.kind \notin {"keyboard", "braille", "none"}

NeverIgnoredType(e) ==
    StartsWith(e.type, <<"window">>) \/ StartsWith(e.type, <<"mouse", "button">>)

\* C1: an object event for which _ignore returned true (or raised) is not
\* on the pending queue, was never taken from it and was never passed to a
\* script, in any later state.
C1_IgnoredNeverQueued ==
    \A r \in ignored :
        /\ r[1] \notin Ids(queue)
        /\ r[1] \notin Elems(dequeued)
        /\ r[1] \notin Elems(delivered)

\* an event was ignored, and a later drain passed an event to a script
C1_Witness ==
    /\ ignored # {}
    /\ last.outcome = "delivered"
    /\ \E r \in ignored : r[1] < last.drained.id

\* ids that follow the order in which their events were put on the queue
InOrder(ids) == \A i, j \in 1..Len(ids) : i < j => ids[i] < ids[j]

\* C2: events are taken from the queue in the order in which they were put
\* on it, and the events a prune leaves in the queue keep their order.  (The
\* ids of the events follow the order of the puts.)
C2_FifoOrder ==
    /\ InOrder(dequeued)
    /\ InOrder([i \in 1..Len(queue) |-> queue[i].id])

\* C3, as claimed: whatever its type, an event that arrives while an equal
\* event is pending and the queue holds at most 50 events is dropped.
C3_AnyTypeDuplicateDropped ==
    (last.op = "enqueue" /\ last.duplicate /\ last.lenBefore <= FloodSize)
        => /\ last.reason # "deliver"
           /\ last.event.id \notin Ids(queue)

\* C3, amended: an object event whose type starts with neither "window" nor
\* "mouse:button", arriving while an equal event is pending and the queue
\* holds at most 50 events, is dropped: the queue is left as it was, and
\* the dropped event is never queued, dequeued or passed to a script.
C3_DuplicateDropped ==
    /\ (/\ last.op = "enqueue"
        /\ IsObjectEvent(last.event)
        /\ ~NeverIgnoredType(last.event)
        /\ last.duplicate
        /\ last.lenBefore <= FloodSize)
           => /\ last.reason # "deliver"
              /\ last.event.id \notin Ids(queue)
              /\ Len(queue) = last.lenBefore
              /\ last.drained = NoEvent
    /\ \A r \in ignored :
          r[2] = "duplicate" =>
              r[1] \notin Ids(queue) \cup Elems(dequeued) \cup Elems(delivered)

\* an event equal to a pending one arrived outside a flood and was dropped
\* as a duplicate
C3_Witness ==
    /\ last.op = "enqueue"
    /\ last.duplicate
    /\ last.lenBefore <= FloodSize
    /\ last.lenBefore > 0
    /\ last.reason = "duplicate"

\* the events still queued that were pending before the latest arrival
Survivors == {queue[i] : i \in {j \in 1..Len(queue) : queue[j].id # last.event.id}}

\* the latest operation put its event on the queue (a synchronous drain may
\* have taken it again)
LastEventAdded == last.event.id \in Ids(queue) \/ last.drained.id = last.event.id

PrioritizedArrivalInFlood ==
    /\ last.op = "enqueue"
    /\ PrioritizeDuringFlood(last.event)
    /\ last.lenBefore > FloodSize

\* C4, as claimed: after a flood-prioritized event arrived at a queue of
\* more than 50 events, every event that was pending before and is still
\* queued is one to process during a flood, no insertion from a source other
\* than the locus of focus is left, and the event itself was queued.
C4_ArrivalAlwaysPrunes ==
    PrioritizedArrivalInFlood
        => /\ \A x \in Survivors : ProcessDuringFlood(x, last.locusBefore)
           /\ \A x \in Survivors :
                  ~(x.type = TextInsert /\ x.source # last.locusBefore)
           /\ LastEventAdded

\* C4, amended: the same, for a flood-prioritized event that _ignore does
\* not reject.
C4_AcceptedArrivalPrunes ==
    (PrioritizedArrivalInFlood /\ last.reason = "deliver")
        => /\ \A x \in Survivors : ProcessDuringFlood(x, last.locusBefore)
           /\ \A x \in Survivors :
                  ~(x.type = TextInsert /\ x.source # last.locusBefore)
           /\ LastEventAdded

\* a focus event arrived at 120 pending insertions from another source than
\* the locus of focus, and is the only event left
C4_Witness ==
    /\ PrioritizedArrivalInFlood
    /\ last.reason = "deliver"
    /\ last.lenBefore = 120
    /\ Len(last.removed) = 120
    /\ queue = <<last.event>>

\* C5: an event of a high-volume type from a source other than the locus
\* of focus that arrives at a queue of more than 100 events is ignored: it
\* is not queued, not dequeued and not passed to a script.
C5_DelugeIgnores ==
    /\ (/\ last.op = "enqueue"
        /\ IsObjectEvent(last.event)
        /\ last.lenBefore > DelugeSize
        /\ last.event.type \in HighVolume
        /\ last.event.source # last.locusBefore)
           => /\ last.reason # "deliver"
              /\ <<last.event.id, last.reason>> \in ignored
              /\ last.event.id \notin Ids(queue)
              /\ last.drained = NoEvent
    /\ \A r \in ignored :
          r[2] = "deluge" =>
              r[1] \notin Ids(queue) \cup Elems(dequeued) \cup Elems(delivered)

\* an insertion from another source than the locus of focus arrived at a
\* queue of more than 100 events and was ignored because of the deluge
C5_Witness ==
    /\ last.op = "enqueue"
    /\ last.lenBefore > DelugeSize
    /\ last.event.type \in HighVolume
    /\ last.event.source # last.locusBefore
    /\ last.reason = "deluge"

\* the latest operation took a high-volume object event that is not
\* prioritized from the queue and left more than 50 and fewer than 100 behind
HighVolumeDrainInFlood ==
    /\ last.drained # NoEvent
    /\ IsObjectEvent(last.drained)
    /\ last.drainLen > FloodSize
    /\ last.drainLen < DelugeSize
    /\ last.drained.type \in HighVolume
    /\ ~PrioritizeDuringFlood(last.drained)

DeliveredOnce(id) == Cardinality({i \in 1..Len(delivered) : delivered[i] = id}) <= 1

\* C6, as claimed: such an event from the locus of focus is passed to a
\* script; from any source it is passed to a script at most once.
C6_FocusSourceDelivered ==
    HighVolumeDrainInFlood
        => /\ last.drained.source = last.locusBefore => last.outcome = "delivered"
           /\ DeliveredOnce(last.drained.id)

\* C6, amended: such an event from the locus of focus is not dropped by
\* the flood check of _processObjectEvent, and it is passed to a script
\* unless its source is dead, defunct or iconified, it is a
\* selection-changed event from a parent of defunct descendants, or no
\* script is found for it; from any source it is passed at most once.
C6_FocusSourcePassesFloodCheck ==
    HighVolumeDrainInFlood
        => /\ last.drained.source = last.locusBefore =>
                 /\ last.outcome # "flood"
                 /\ (/\ ~is_dead(last.drained.source)
                     /\ ~is_defunct(last.drained.source)
                     /\ ~is_iconified(last.drained.source)
                     /\ ~(/\ StartsWith(last.drained.type, <<"object", "selection-changed">>)
                          /\ last.drained.source \in parentsOfDefunctDescendants)
                     /\ GetScriptForEvent(last.drained) # None)
                        => last.outcome = "delivered"
           /\ DeliveredOnce(last.drained.id)

\* an insertion from the locus of focus was taken from a flooded queue and
\* passed to a script
C6_Witness ==
    /\ HighVolumeDrainInFlood
    /\ last.drained.source = last.locusBefore
    /\ last.outcome = "delivered"

C8_OneIdleCallback ==
    /\ idleSources <= 1
    /\ gidleId = 0 => idleSources = 0

\* thread t is inside _dequeue
InDequeue(t) == local[t].dequeueFrom # ""

\* C9: no two calls of _dequeue are in progress at the same time.
C9_OneDequeueInProgress == Cardinality({t \in Threads : InDequeue(t)}) <= 1

\* C10: an event enqueued in synchronous mode is itself taken from the queue
\* and passed to its script before _enqueue returns.
C10_SynchronousEventDelivered ==
    (last.op = "enqueue" /\ last.reason = "deliver" /\ ~AsyncMode(last.event))
        => /\ last.drained = last.event
           /\ last.outcome = "delivered"

(***************************************************************************)
(* C11.  A thread never holds _gidleLock while it invokes a handler: the   *)
(* lock is held exactly between the put and the release of _addToQueue     *)
(* and between the acquire and the release at the end of _dequeue, so at   *)
(* no position from which _processInputEvent or _processObjectEvent is     *)
(* called, on the idle path and on the synchronous path alike.             *)
(***************************************************************************)
LockSections == {"enqueue_wake", "dequeue_release"}

HandlerPositions == {"dequeue_process", "dequeue_dispatch"}

C11_NoLockDuringHandler ==
    /\ \A t \in Threads : gidleLock = t <=> pc[t] \in LockSections
    /\ \A t \in Threads : pc[t] \in HandlerPositions => gidleLock # t

\* the producer is about to call the handler from its own (synchronous)
\* _dequeue while the main thread holds the lock at the end of its _dequeue
C11_Witness ==
    /\ pc["producer"] = "dequeue_dispatch"
    /\ local["producer"].dequeueFrom = "_enqueue"
    /\ pc["main"] = "dequeue_release"
    /\ gidleLock = "main"

(***************************************************************************)
(* C12.  An envelope taken from the queue is handed to a handler at most   *)
(* once, and so to at most one handler: no envelope is taken twice, none   *)
(* is delivered twice, and only taken envelopes are delivered, also when   *)
(* a synchronous _dequeue and the idle _dequeue interleave.                *)
(***************************************************************************)
NoRepeats(seq) == \A i, j \in 1..Len(seq) : seq[i] = seq[j] => i = j

C12_DeliveredAtMostOnce ==
    /\ NoRepeats(dequeued)
    /\ NoRepeats(delivered)
    /\ Elems(delivered) \subseteq Elems(dequeued)

\* the synchronous _dequeue of the producer and the idle _dequeue of the
\* main loop have each delivered the envelope they took
C12_Witness ==
    /\ pc["main"] = "dequeue_finish"
    /\ pc["producer"] = "dequeue_finish"
    /\ local["producer"].dequeueFrom = "_enqueue"
    /\ local["main"].event.id # local["producer"].event.id
    /\ {local["main"].event.id, local["producer"].event.id} \subseteq Elems(delivered)

(***************************************************************************)
(* C13.  Overlapping suspensions.  Without the forced override, events     *)
(* stay suspended while an event that triggered the suspension is still    *)
(* recorded and resume exactly when the last one is cleared: events are    *)
(* never suspended with no trigger recorded; a _dequeue that clears a      *)
(* recorded trigger leaves events suspended if and only if they were       *)
(* suspended and another trigger remains; and of two recorded triggers,    *)
(* clearing either one alone leaves events suspended and clearing the      *)
(* other afterwards resumes them.                                          *)
(***************************************************************************)
Trigger(id) == [NoEvent EXCEPT !.id = id]

ClearedTrigger ==
    /\ last.op = "dequeue"
    /\ last.drained.id \in Elems(last.triggersBefore)

C13_LastTriggerResumes ==
    /\ eventsSuspended => eventsTriggeringSuspension # <<>>
    /\ ClearedTrigger =>
          /\ eventsTriggeringSuspension =
                SelectSeq(last.triggersBefore, LAMBDA x : x # last.drained.id)
          /\ eventsSuspended <=>
                last.suspendedBefore /\ eventsTriggeringSuspension # <<>>
    /\ \A a, b \in Elems(eventsTriggeringSuspension) :
          (eventsSuspended /\ a # b /\ Len(eventsTriggeringSuspension) = 2) =>
             LET first == UnsuspendEvents(State, Trigger(b), FALSE)
                 second == UnsuspendEvents(first, Trigger(a), FALSE)
             IN  /\ first.eventsSuspended
                 /\ first.scriptListenerCounts = scriptListenerCounts
                 /\ ~second.eventsSuspended
                 /\ second.eventsTriggeringSuspension = <<>>

\* two window activations suspended events, the first has been processed
\* and cleared, and events are still suspended for the second
C13_Witness ==
    /\ ClearedTrigger
    /\ last.suspendedBefore
    /\ Len(last.triggersBefore) = 2
    /\ eventsSuspended
    /\ Len(eventsTriggeringSuspension) = 1

(***************************************************************************)
(* C14.  A window activation that arrives at an empty queue while events   *)
(* are not suspended and no trigger of an earlier suspension is recorded.  *)
(***************************************************************************)
IsWindowActivation(e) == e.type = WindowActivate /\ is_frame(e.source)

\* the latest operation was the arrival of such an envelope, now pending
WindowActivationArrived ==
    /\ last.op = "enqueue"
    /\ last.reason = "deliver"
    /\ IsWindowActivation(last.event)
    /\ last.lenBefore = 0
    /\ ~last.suspendedBefore
    /\ last.triggersBefore = <<>>
    /\ queue = <<last.event>>

\* the state after the _dequeue that processes it
AfterWindowActivation == Dequeue(State, parentsOfDefunctDescendants).st

WindowActivationProcessed ==
    /\ last.op = "dequeue"
    /\ IsWindowActivation(last.drained)
    /\ last.suspendedBefore
    /\ last.triggersBefore = <<last.drained.id>>

C15_SuspensionLifts ==
    (queue = <<>> /\ idleSources = 0) => ~eventsSuspended

(***************************************************************************)
(* C17.  After any sequence of registerListener, deregisterListener and    *)
(* deactivate calls, an event type is registered at the listener of the    *)
(* bus if and only if it has an entry in _scriptListenerCounts (a count of *)
(* at least 1).                                                            *)
(***************************************************************************)
Entries == {t \in ListenerTypes : scriptListenerCounts[t] >= 1}

C17_RegisteredIffCounted == registered = Entries

(***************************************************************************)
(* C16.  Entering and then leaving suspension is a round trip on the       *)
(* listener table: whatever the counts are when events are suspended (0,   *)
(* 1 or more for a suspendable type), when no script registers or          *)
(* deregisters in between, the counts and the types registered at the      *)
(* listener are afterwards what they were before.                          *)
(***************************************************************************)
\* a window activation can arrive and suspend events
CanSuspend ==
    /\ active
    /\ WindowActivate \in registered
    /\ ~eventsSuspended
    /\ eventsTriggeringSuspension = <<>>

C16_SuspensionRoundTrip ==
    CanSuspend =>
        LET trigger == Trigger(arrivals + 1)
            entered == SuspendEvents(State, trigger)
            left == UnsuspendEvents(entered, trigger, FALSE)
        IN  /\ entered.eventsSuspended
            /\ ~left.eventsSuspended
            /\ left.scriptListenerCounts = scriptListenerCounts
            /\ left.registered = registered

(***************************************************************************)
(* C18.  After deactivate the queue is empty, so that no envelope pending  *)
(* before it can be delivered afterwards, no type has a listener count,    *)
(* and no type is registered at the listener of the bus.                   *)
(***************************************************************************)
\* the step is a deactivate() of the active manager
Deactivates == active /\ ~active'

C18_DeactivateClears ==
    [][Deactivates =>
          /\ queue' = <<>>
          /\ \A t \in ListenerTypes : scriptListenerCounts'[t] = 0
          /\ registered' = {}]_vars

(***************************************************************************)
(* C19.  After deactivate the scheduling token is released, _gidleId being *)
(* 0, and deactivate is idempotent: what it assigns is what a second       *)
(* deactivate would assign.                                                *)
(***************************************************************************)
C19_DeactivateReleasesToken ==
    [][Deactivates =>
          /\ gidleId' = 0
          /\ ~active'
          /\ queue' = <<>>
          /\ scriptListenerCounts' = [t \in ListenerTypes |-> 0]]_vars

(***************************************************************************)
(* C20.  An exception of the script that processes an event is caught in   *)
(* _processObjectEvent or _processInputEvent: the _dequeue goes on as if   *)
(* the script had returned, so the events still pending stay pending with  *)
(* the idle callback installed, and the next _dequeue takes the oldest of  *)
(* them and passes it to its script.                                       *)
(***************************************************************************)
\* what _dequeue leaves apart from what the script itself assigns
Pipeline(s) ==
    [ queue |-> s.queue, gidleId |-> s.gidleId, noFocusTimeouts |-> s.noFocusTimeouts,
      activeScript |-> s.activeScript, eventsSuspended |-> s.eventsSuspended,
      eventsTriggeringSuspension |-> s.eventsTriggeringSuspension,
      scriptListenerCounts |-> s.scriptListenerCounts, registered |-> s.registered,
      dequeued |-> s.dequeued, delivered |-> s.delivered, removed |-> s.removed ]

HandlerRaised == last.outcome = "raised"

C20_RaiseIsContained ==
    /\ queue # <<>> =>
          LET raised == Dequeue([State EXCEPT !.raises = TRUE], parentsOfDefunctDescendants)
              returned == Dequeue(State, parentsOfDefunctDescendants)
          IN  /\ raised.rerun = returned.rerun
              /\ Pipeline(raised.st) = Pipeline(returned.st)
              /\ raised.st.outcome \in {"raised", returned.st.outcome}
    /\ HandlerRaised =>
          /\ last.drained.id \in Elems(delivered)
          /\ last.drained.id \notin Elems(eventsTriggeringSuspension)
          /\ queue = <<>> => gidleId = 0
          /\ queue # <<>> =>
                /\ gidleId = 1
                /\ idleSources >= 1
                /\ LET next == Dequeue(State, parentsOfDefunctDescendants).st IN
                   /\ next.dequeued = Append(dequeued, Head(queue).id)
                   /\ next.outcome = "delivered" =>
                         next.delivered = Append(delivered, Head(queue).id)

\* the script raised for the event the idle callback took, events are
\* still pending and the callback is still installed
C20_Witness ==
    /\ HandlerRaised
    /\ last.op = "dequeue"
    /\ queue # <<>>
    /\ idleSources >= 1

(***************************************************************************)
(* C21.  When _ignore, or the flood check of _enqueue, raises an exception *)
(* while it evaluates an event, the event is not queued: the call leaves   *)
(* the queue, the idle token and its callback, the suspension state and    *)
(* the listeners as they were, and no event is dequeued or delivered by    *)
(* the call.                                                               *)
(***************************************************************************)
FilterRaised == last.op = "enqueue" /\ last.reason = "exception"

FloodCheckRaised == last.op = "enqueue" /\ last.outcome = Uncaught("prioritize")

C22_NothingPropagates == last.outcome \notin {Uncaught(point) : point \in FaultPoints}

(***************************************************************************)
(* C23.  For an event whose script is the active script already,           *)
(* _isActivatableEvent answers False whatever the type and the details of  *)
(* the event and whatever script.isActivatableEvent and                    *)
(* script.forceScriptActivation answer, and the _dequeue that passes the   *)
(* event to its script leaves the active script as it was.                 *)
(***************************************************************************)
\* the step passes last'.drained to its script
Delivers == last' # last /\ last'.outcome \in {"delivered", "raised"}
                        /\ last'.drained.kind = "object"

C23_ActiveScriptNotActivated ==
    [][Delivers /\ GetScriptForEvent(last'.drained) = activeScript =>
          /\ \A activatable, force \in BOOLEAN :
                ~ActivatableWhen(State, last'.drained, activeScript, activatable, force)
          /\ activeScript' = activeScript]_vars

\* a focus event, which activates the script of its source when that is
\* another one, was passed to the script that has been active since the
\* start
C23_Witness ==
    /\ last.outcome = "delivered"
    /\ last.drained.type = Focused
    /\ last.drained.detail1 # 0
    /\ last.drained.id > 0
    /\ last.locusBefore = "entry"
    /\ \A i \in 1..Len(delivered) : delivered[i] < 0 \/ delivered[i] = last.drained.id
    /\ activeScript = "gedit"
    /\ GetScriptForEvent(last.drained) = activeScript

(***************************************************************************)
(* C24.  The active script changes in three ways only: _processObjectEvent *)
(* makes the script of the event it is about to deliver the active one     *)
(* when _isActivatableEvent says so; _processObjectEvent clears it when    *)
(* the source of a window:deactivate event, or of a window:destroy event   *)
(* of the active window, is dead or defunct; and _onNoFocus makes the      *)
(* default script active when there is no locus of focus, no active window *)
(* and no active script.  _ignore, _enqueue apart from the _dequeue it     *)
(* runs, the prunes and the suspension leave it alone.                     *)
(***************************************************************************)
\* the step is a _dequeue whose _processObjectEvent switched to the script
\* of the event it took because _isActivatableEvent said so
SwitchedByDecider ==
    /\ last'.outcome \in {"delivered", "raised"}
    /\ last'.drained.kind = "object"
    /\ IsActivatableEvent(State, last'.drained, GetScriptForEvent(last'.drained))
    /\ activeScript' = GetScriptForEvent(last'.drained)

\* the step is a _dequeue that took a window event of a dead source
ClearedForDeadWindow ==
    /\ last'.outcome = "defunct"
    /\ \/ StartsWith(last'.drained.type, <<"window", "deactivate">>)
       \/ StartsWith(last'.drained.type, <<"window", "destroy">>)
    /\ activeScript' = None

\* the step is _onNoFocus finding nothing focused and no script active
SwitchedByNoFocus ==
    /\ noFocusTimeouts' = noFocusTimeouts - 1
    /\ locusOfFocus = None /\ activeWindow = None /\ activeScript = None
    /\ activeScript' = "default"

C24_OnlyDeciderSwitches ==
    [][activeScript' # activeScript => SwitchedByDecider]_vars

C24_ActiveScriptSwitches ==
    [][activeScript' # activeScript =>
          SwitchedByDecider \/ ClearedForDeadWindow \/ SwitchedByNoFocus]_vars

\* the active window died, its window:deactivate cleared the active script
\* and _onNoFocus made the default script active
C24_Witness ==
    /\ activeScript = "default"
    /\ activeWindow = None
    /\ "frame" \in dead
    /\ dequeued # <<>>
    /\ noFocusTimeouts = 0

(***************************************************************************)
(* C25.  _eventsTriggeringSuspension and _parentsOfDefunctDescendants are  *)
(* modified only by a thread that is inside _dequeue, never by a thread    *)
(* that is in _enqueue before its _dequeue.                                *)
(***************************************************************************)
C25_OnlyDrainModifies ==
    [][(\/ eventsTriggeringSuspension' # eventsTriggeringSuspension
        \/ parentsOfDefunctDescendants' # parentsOfDefunctDescendants)
          => \E t \in Threads : InDequeue(t) /\ pc'[t] # pc[t]]_vars

(***************************************************************************)
(* C26.  The timeout that calls _onNoFocus is installed only by a _dequeue *)
(* that took an event and left the queue empty; and _onNoFocus makes the   *)
(* default script active only when, as it runs, the queue is empty and     *)
(* there is no locus of focus, no active window and no active script:      *)
(* in any other state it changes nothing.                                  *)
(***************************************************************************)
NoFocusAtAll ==
    queue = <<>> /\ locusOfFocus = None /\ activeWindow = None /\ activeScript = None

C26_NoFocusWatchdog ==
    [][/\ noFocusTimeouts' > noFocusTimeouts =>
             queue' = <<>> /\ last'.drained # NoEvent
       /\ noFocusTimeouts' < noFocusTimeouts =>
             /\ activeScript' = IF NoFocusAtAll THEN "default" ELSE activeScript
             /\ UNCHANGED <<queue, gidleId, idleSources, locusOfFocus, activeWindow,
                            eventsSuspended, eventsTriggeringSuspension, dequeued,
                            delivered>>]_vars

(***************************************************************************)
(* C27.  While the manager is not active, an event handed to it, whether   *)
(* an object event, a mouse button event or a key of the braille display,  *)
(* is ignored: the call leaves the queue as it was and passes no event to  *)
(* a script.                                                               *)
(***************************************************************************)
C27_InactiveIgnoresAll ==
    [][~active /\ arrivals' # arrivals =>
          /\ queue' = queue
          /\ dequeued' = dequeued
          /\ delivered' = delivered]_vars

(***************************************************************************)
(* C28.  An event whose type starts with window or with mouse:button, and  *)
(* that the first three rules of _ignore (manager not active, ignored      *)
(* type, children-changed:remove of gnome-shell) do not reject, is not     *)
(* ignored: _enqueue puts it on the queue, whatever the length of the      *)
(* queue, whether or not an equal event is pending, and whether or not its *)
(* source is dead.                                                         *)
(***************************************************************************)
\* the latest operation was _enqueue for an event of those types that the
\* first three rules let pass
NeverIgnoredArrived ==
    /\ last.op = "enqueue"
    /\ NeverIgnoredType(last.event)
    /\ last.reason \notin {"inactive", "ignored-type", "type-and-app"}

C28_NeverIgnoredTypes ==
    NeverIgnoredArrived =>
        /\ last.reason = "deliver"
        /\ <<last.event.id, last.reason>> \notin ignored
        /\ \/ last.event.id \in Ids(queue)
           \/ last.event.id \in Elems(dequeued)

\* a window event of a dead source arrived in a deluge while an equal event
\* was pending, and is queued
C28_Witness ==
    /\ NeverIgnoredArrived
    /\ StartsWith(last.event.type, <<"window">>)
    /\ last.duplicate
    /\ last.lenBefore > DelugeSize
    /\ last.event.source \in dead
    /\ last.event.id \in Ids(queue)

(***************************************************************************)
(* C29.  Whenever events are pending and no thread is inside _enqueue or   *)
(* _dequeue, a _dequeue callback is installed in the main loop, so that    *)
(* the pending events will be taken from the queue.                        *)
(***************************************************************************)
Quiescent == \A t \in Threads : pc[t] = "idle"

C29_DrainScheduled == (queue # <<>> /\ Quiescent) => idleSources > 0

(***************************************************************************)
(* C30.  An event leaves the queue only when _dequeue takes it, when a     *)
(* prune finds that _processDuringFlood is false for it, or by deactivate: *)
(* the assignment that ends a prune discards no pending event for which    *)
(* _processDuringFlood is true, whatever the other thread does meanwhile.  *)
(***************************************************************************)
C30_PruneLosesNothing ==
    [][\A t \in Threads :
          pc[t] = "prune_swap" /\ pc'[t] # "prune_swap" =>
              \A i \in 1..Len(queue) :
                  ProcessDuringFlood(queue[i], locusOfFocus)
                      => queue[i].id \in Ids(queue')]_vars

(***************************************************************************)
(* C31: whenever the events are not suspended, the count kept for an event *)
(* type is the number of listeners the scripts have registered for it and  *)
(* not deregistered (no entry, count 0, when there is none), however the   *)
(* registrations interleave with entering and leaving suspension.          *)
(***************************************************************************)
C31_CountsMatchListeners ==
    ~eventsSuspended => scriptListenerCounts = listeners

(***************************************************************************)
(* C32: the events are suspended exactly when there is a recorded trigger: *)
(* _eventsSuspended is true if and only if _eventsTriggeringSuspension is  *)
(* not empty, in every reachable state.                                    *)
(***************************************************************************)
C32_SuspendedIffTriggers ==
    eventsSuspended <=> eventsTriggeringSuspension # <<>>

(***************************************************************************)
(* C33: every event recorded in _eventsTriggeringSuspension is still in    *)
(* the queue (between two handlers no event is in the hands of _dequeue):  *)
(* no trigger stays recorded after its event has left the manager, be it   *)
(* delivered, dropped by _processObjectEvent, pruned or discarded by       *)
(* deactivate.                                                             *)
(***************************************************************************)
C33_TriggersArePending ==
    \A i \in DOMAIN eventsTriggeringSuspension :
        eventsTriggeringSuspension[i] \in Ids(queue)

(***************************************************************************)
(* C34: when _isActivatableEvent answers True for an event and the switch  *)
(* succeeds, setActiveScript(script) is complete before                    *)
(* script.processObjectEvent(event) is called, the event is delivered to   *)
(* that script while it is the active one, and the script processes no     *)
(* other event between becoming active and this one.                       *)
(***************************************************************************)
ScriptOf(t) == GetScriptForEvent(local[t].event)

C34_ActivatedThenFirst ==
    [][\A t \in Threads :
          pc[t] = "dispatch_switched" =>
              /\ activeScript = ScriptOf(t)
              /\ pc'[t] # pc[t] => delivered' = Append(delivered, local[t].event.id)
              /\ \A u \in Threads \ {t} :
                     (/\ pc[u] \in {"dispatch_switched", "dispatch_deliver"}
                      /\ pc'[u] # pc[u]) => ScriptOf(u) # ScriptOf(t)
      ]_vars

(***************************************************************************)
(* C35: _isActivatableEvent applies its rules in order and the first that  *)
(* matches decides: no source, no script, script already active, script    *)
(* declines, script insists, window activation, focus claimed, selection   *)
(* in a menu, modal panel showing.  A script that declines is not          *)
(* activated even if it would insist, and a window activation of the       *)
(* window that is the active one already does not activate.  Checked for   *)
(* every event passed to a script, every candidate script and every pair   *)
(* of answers of the script.                                               *)
(***************************************************************************)
Candidates == {None, "default", "gedit", "soffice"}

FocusClaimed(e) ==
    \/ StartsWith(e.type, <<"focus">>)
    \/ StartsWith(e.type, <<"object", "state-changed", "focused">>) /\ e.detail1 # 0

\* the types of the window rule and of the rules behind the focus rule
WindowOrLaterRule(e) ==
    \/ StartsWith(e.type, <<"window">>)
    \/ StartsWith(e.type, <<"object", "state-changed", "active">>)
    \/ StartsWith(e.type, <<"object", "state-changed", "selected">>)
    \/ StartsWith(e.type, <<"object", "state-changed", "showing">>)

C35_RulesInOrder ==
    [][Delivers =>
        LET e == last'.drained IN
        /\ \A script \in Candidates, activatable, force \in BOOLEAN :
              LET answer == ActivatableWhen(State, e, script, activatable, force)
                  asked == script # None /\ script # activeScript
              IN  /\ ~ActivatableWhen(State, [e EXCEPT !.source = None], script,
                                      activatable, force)
                  /\ ~asked => ~answer
                  /\ ~activatable => ~answer
                  /\ asked /\ activatable /\ force => answer
                  /\ asked /\ activatable /\ ~force /\ StartsWith(e.type, WindowActivate)
                        => (answer <=> e.source # activeWindow)
                  /\ asked /\ activatable /\ ~force /\ ~WindowOrLaterRule(e)
                        => (answer <=> FocusClaimed(e))
        /\ activeScript' = IF IsActivatableEvent(State, e, GetScriptForEvent(e))
                             THEN GetScriptForEvent(e) ELSE activeScript
    ]_vars

\* a window:activate event of the window that was the active one was passed
\* to the script of its application, which was not the active script and
\* was not made so
C35_Witness ==
    /\ last.outcome = "delivered"
    /\ last.drained.type = WindowActivate
    /\ last.drained.source = "frame"
    /\ GetScriptForEvent(last.drained) = "gedit"
    /\ activeScript = "soffice"
    /\ activeWindow = "frame"

(***************************************************************************)
(* C36: an object event taken from the queue while more than 50 events     *)
(* remain pending is passed to a script only if its type is not one of the *)
(* high-volume types or its source is the locus of focus; otherwise it is  *)
(* dropped: no script is called and the active script stays as it is.      *)
(***************************************************************************)
DrainsInFlood ==
    /\ last' # last
    /\ last'.drained # NoEvent
    /\ IsObjectEvent(last'.drained)
    /\ last'.drainLen > FloodSize

C36_FloodDrop ==
    [][DrainsInFlood =>
        LET e == last'.drained IN
        /\ last'.outcome \in {"delivered", "raised"}
              => (e.type \notin HighVolume \/ e.source = locusOfFocus)
        /\ (e.type \in HighVolume /\ e.source # locusOfFocus)
              => /\ last'.outcome \notin {"delivered", "raised"}
                 /\ delivered' = delivered
                 /\ activeScript' = activeScript
    ]_vars

\* an insertion elsewhere than at the locus of focus was taken from a
\* flooded queue and dropped by the flood check
C36_Witness ==
    /\ last.drained # NoEvent
    /\ last.drainLen > FloodSize
    /\ last.drained.type \in HighVolume
    /\ last.drained.source # last.locusBefore
    /\ last.outcome = "flood"
    /\ delivered = <<>>

(***************************************************************************)
(* C37: when the source of the event taken from the queue is dead or       *)
(* defunct, no script is called; the locus of focus, the active window and *)
(* the active script are cleared if the event is a window:deactivate or a  *)
(* window:destroy of the active window, and left as they are for every     *)
(* other event of a dead source, a window:deactivate of a window that is   *)
(* not the active one included.                                            *)
(***************************************************************************)
DrainsDeadSource == last' # last /\ last'.outcome = "defunct"

C37_DeadSourceClearsActiveWindowOnly ==
    [][DrainsDeadSource =>
        LET e == last'.drained
            ofActiveWindow ==
                /\ \/ StartsWith(e.type, <<"window", "deactivate">>)
                   \/ StartsWith(e.type, <<"window", "destroy">>)
                /\ e.source = activeWindow
        IN  /\ delivered' = delivered
            /\ IF ofActiveWindow
                 THEN locusOfFocus' = None /\ activeWindow' = None /\ activeScript' = None
                 ELSE UNCHANGED <<locusOfFocus, activeWindow, activeScript>>
    ]_vars

(***************************************************************************)
(* C38: while the locus of focus stays the same, the number of pending     *)
(* events of a high-volume type from another source than the locus of      *)
(* focus does not grow beyond the deluge threshold plus one (101),         *)
(* whatever arrives.                                                       *)
(***************************************************************************)
PendingElsewhere(q, locus) ==
    Cardinality({i \in 1..Len(q) : q[i].type \in HighVolume /\ q[i].source # locus})

DefunctPayload(e) == IsStructural(e) /\ (is_dead(e.any_data) \/ is_defunct(e.any_data))

C39_DefunctPayloadRemembered ==
    (last.op = "enqueue" /\ DefunctPayload(last.event))
        => /\ last.reason # "deliver"
           /\ last.event.source \in parentsOfDefunctDescendants

(***************************************************************************)
(* C39, amended: such an event is ignored unless it is a removal and the   *)
(* removed child is the locus of focus or the locus of focus is dead; when *)
(* the check of the child is what ignores it, its source is remembered if  *)
(* it manages its descendants, and only then.  While a source is           *)
(* remembered, a selection-changed event from it is ignored by _ignore and *)
(* not passed to a script by _dequeue.  The source is forgotten when a     *)
(* later event of these types from it reaches the check with a child that  *)
(* is neither dead nor defunct.  Nothing else changes the memo.            *)
(***************************************************************************)
\* the removal for which _ignore returns False before it looks at the child
RemovalAtFocus(e) ==
    EndsWith(e.type, "remove") /\ (e.any_data = locusOfFocus \/ is_dead(locusOfFocus))

FromRemembered(e) ==
    StartsWith(e.type, SelectionChanged) /\ e.source \in parentsOfDefunctDescendants

C39_DefunctDescendantsMemo ==
    [][/\ (last' # last /\ last'.op = "enqueue") =>
            LET e == last'.event IN
            /\ DefunctPayload(e) /\ ~RemovalAtFocus(e) => e.id \notin Ids(queue')
            /\ parentsOfDefunctDescendants' =
                  IF last'.reason = "defunct-child"
                    THEN IF manages_descendants(e.source)
                           THEN parentsOfDefunctDescendants \cup {e.source}
                           ELSE parentsOfDefunctDescendants
                  ELSE IF /\ IsStructural(e)
                          /\ last'.reason \in {"deliver", "child-role"}
                          /\ ~RemovalAtFocus(e)
                    THEN parentsOfDefunctDescendants \ {e.source}
                  ELSE parentsOfDefunctDescendants
            /\ FromRemembered(e) =>
                  /\ last'.reason # "deliver"
                  /\ e.id \notin Ids(queue')
                  /\ e.id \notin Elems(delivered')
       /\ (last' # last /\ last'.drained # NoEvent /\ FromRemembered(last'.drained)) =>
            /\ delivered' = delivered
            /\ last'.outcome \notin {"delivered", "raised"}
    ]_vars

\* a selection-changed event that was pending when its source was
\* remembered has been taken from the queue and dropped
C39_Witness ==
    /\ last.drained # NoEvent
    /\ StartsWith(last.drained.type, SelectionChanged)
    /\ last.drained.source = "table"
    /\ "table" \in parentsOfDefunctDescendants
    /\ last.outcome = "defunct-descendants"
    /\ delivered = <<>>

(***************************************************************************)
(* C40: an idle callback that finds the queue empty calls no script,       *)
(* resets the token and returns False, so that it is removed from the main *)
(* loop; a callback that takes the last event resets the token and is      *)
(* removed as well; a callback that leaves events pending stays installed. *)
(***************************************************************************)
IdleCallbackRuns == idleRuns' = idleRuns + 1

C40_EmptyDrainEndsCycle ==
    [][IdleCallbackRuns =>
        /\ queue = <<>> =>
              /\ queue' = <<>>
              /\ dequeued' = dequeued
              /\ delivered' = delivered
              /\ UNCHANGED <<locusOfFocus, activeWindow, activeScript>>
              /\ gidleId' = 0
              /\ idleSources' = idleSources - 1
        /\ (queue # <<>> /\ queue' = <<>>) =>
              /\ gidleId' = 0
              /\ idleSources' = idleSources - 1
        /\ queue' # <<>> => idleSources' = idleSources
    ]_vars

\* the callback was still installed after deactivate had emptied the queue;
\* it ran, found nothing and was removed
C40_Witness ==
    /\ last.op = "dequeue"
    /\ last.outcome = "empty"
    /\ last.lenBefore = 0
    /\ queue = <<>>
    /\ gidleId = 0
    /\ idleSources = 0
    /\ idleRuns = 1

====
